---------------------------- MODULE Spec2Model ----------------------------
(***************************************************************************)
(* libadlmidi-js: the OPL3 struct codec (src/utils/struct.js) and the      *)
(* AudioWorklet processor (AdlMidiProcessor) that drives the native        *)
(* libADLMIDI engine.  Both live in src/unnamed/part_004.                  *)
(*                                                                         *)
(* Two specifications share the module:                                    *)
(*   SpecCodec  the codec: operators and 40-byte instrument records are    *)
(*              chosen, encoded into memory and decoded again;             *)
(*   Spec       the processor: module initialisation, inbound messages     *)
(*              and per-block process() calls against a native engine      *)
(*              whose calls may return a code or throw.                    *)
(***************************************************************************)
EXTENDS Integers, Sequences, FiniteSets, TLC

VARIABLES
    \* ---- codec (SpecCodec) ----
    cpc,        \* position of the codec pipeline
    op,         \* the Operator handed to encodeOperator
    opBytes,    \* the 5 bytes encodeOperator returned
    opOut,      \* the Operator decodeOperator returned
    opBack,     \* the 5 bytes encodeOperator returned for a decoded operator
    inst,       \* the Instrument handed to writeInstrumentToMemory
    heap,       \* HEAPU8: address -> byte
    ptr,        \* address of the ADL_Instrument record in heap
    fill,       \* the byte every heap cell held before the write
    instOut,    \* the Instrument readInstrumentFromMemory returned
    \* ---- processor (Spec) ----
    adl,        \* this.adl: "null", "module" or "moduleNoHeap16"
    midi,       \* this.midi: 0 (null) or the engine handle
    bufferPtr,  \* this.bufferPtr: 0 (null) or the generation buffer
    ready,      \* this.ready
    playMode,   \* this.playMode
    initDone,   \* whether the continuation of initWasm has run
    live,       \* native allocations not yet freed: set of [ptr, size]
    badFree,    \* whether _free was ever called on a pointer not live
    settings,   \* this.settings
    bank,       \* the engine's instrument store: slot -> 40 bytes
    emulator,   \* the engine's active chip emulator
    last,       \* what the last handler invocation was and how it ended
    posted,     \* messages port.postMessage sent during the last invocation
    calls,      \* native calls made during the last invocation, in order
    \* ---- control-side facade (SpecFacade) ----
    fListeners, \* reply type -> request whose one-shot listener is registered (0: none)
    fPending,   \* requests whose promise is neither resolved nor rejected
    fSettled,   \* settled promises: which request, settled by the reply to which request
    fRegistered,\* requests whose listener has been registered
    fSent,      \* requests whose message has been posted to the processor
    fDelivered, \* requests whose reply has arrived at the facade
    fCur,       \* the request call in progress on the control thread, if any
    fNext,      \* number of the next request
    chanOut,    \* messages in flight from the facade to the processor
    chanIn,     \* replies in flight from the processor to the facade
    fServed,    \* the requests the processor has handled, in order
    fReplies,   \* the replies the processor has posted, in order
    \* ---- low-level bridge (SpecCore) ----
    cModule,    \* whether the engine module is loaded (create() has resolved)
    cHandle,    \* the engine handle the bridge holds: 0 (null) or a handle
    cBuffer,    \* the generation buffer the bridge holds: 0 (null) or a pointer
    cLive,      \* native resources not yet released: handles and buffers
    cReleased,  \* how many times each native resource has been released
    cLast,      \* the last bridge method called and how it ended
    cCalls,     \* native calls made by the last bridge method, in order
    \* ---- sample conversion of process() (SpecAudio) ----
    apc,        \* position of the block: "idle", "generated", "converted"
    aShape,     \* the output handed to process(): "stereo" or "mono"
    aFrames,    \* left.length
    aSamples,   \* the interleaved samples the engine produced for the block
    aHeap,      \* the bytes of the generation buffer
    aOut,       \* the destination channels: numerators over 32768
    \* ---- file playback (SpecPlayback) ----
    position,   \* the engine's file position, in rendered blocks
    since       \* the last of play / stop still in force: "play", "stop", "none"

codecVars == <<cpc, op, opBytes, opOut, opBack, inst, heap, ptr, fill, instOut>>
procVars  == <<adl, midi, bufferPtr, ready, playMode, initDone, live, badFree,
               settings, bank, emulator, last, posted, calls>>
facadeVars == <<fListeners, fPending, fSettled, fRegistered, fSent, fDelivered, fCur,
                fNext, chanOut, chanIn, fServed, fReplies>>
coreVars  == <<cModule, cHandle, cBuffer, cLive, cReleased, cLast, cCalls>>
audioVars == <<apc, aShape, aFrames, aSamples, aHeap, aOut>>
playVars  == <<position, since>>
vars      == <<codecVars, procVars, facadeVars, coreVars, audioVars, playVars>>

---------------------------------------------------------------------------
(* JavaScript integer arithmetic *)

Pow2(n) == 2 ^ n

\* TLC's integers are 32-bit, so a 32-bit pattern is never held as one
\* unsigned number: it is handled as a signed value or byte by byte.

\* ToUint16 / ToUint8 of an integer: its low bits, unsigned.
ToUint16(x) == x % Pow2(16)
ToUint8(x)  == x % Pow2(8)

\* The signed readings of an unsigned bit pattern (two's complement).
AsInt16(u) == IF u >= Pow2(15) THEN u - Pow2(16) ELSE u
AsInt8(u)  == IF u >= Pow2(7)  THEN u - Pow2(8)  ELSE u

RECURSIVE NatAnd(_, _)
NatAnd(a, b) ==
    IF a = 0 \/ b = 0 THEN 0
    ELSE (a % 2) * (b % 2) + 2 * NatAnd(a \div 2, b \div 2)

RECURSIVE NatOr(_, _)
NatOr(a, b) ==
    IF a = 0 THEN b
    ELSE IF b = 0 THEN a
    ELSE (IF (a % 2) + (b % 2) > 0 THEN 1 ELSE 0) + 2 * NatOr(a \div 2, b \div 2)

\* x & m for a mask m below 2^16: only the low 16 bits of x (two's
\* complement) take part.  x | y and x << k for the non-negative operands
\* the codec builds bytes from.  x >> k is the arithmetic shift.
BitAnd(x, m) == NatAnd(ToUint16(x), m)
BitOr(x, y)  == NatOr(x, y)
Shl(x, k)    == x * Pow2(k)
Shr(x, k)    == x \div Pow2(k)


---------------------------------------------------------------------------
(* Struct sizes *)

SIZEOF_ADL_OPERATOR   == 5
SIZEOF_ADL_INSTRUMENT == 40
SIZEOF_ADL_BANK       == 12
SIZEOF_ADL_BANK_ID    == 4
OPERATOR_OFFSET       == 14
DELAY_OFFSET          == 34

---------------------------------------------------------------------------
(* Operator encoding / decoding.  A byte array is a sequence indexed from *)
(* 1: bytes[k] of the source is bytes[k + 1] here.                         *)

\* decodeOperator reading the attack rate from the low nibble
decodeOperator_AttackLowNibble(bytes) ==
    [ am            |-> BitAnd(bytes[1], 128) # 0,
      vibrato       |-> BitAnd(bytes[1], 64) # 0,
      sustaining    |-> BitAnd(bytes[1], 32) # 0,
      ksr           |-> BitAnd(bytes[1], 16) # 0,
      freqMult      |-> BitAnd(bytes[1], 15),
      keyScaleLevel |-> BitAnd(Shr(bytes[2], 6), 3),
      totalLevel    |-> BitAnd(bytes[2], 63),
      attack        |-> BitAnd(bytes[3], 15),
      decay         |-> BitAnd(bytes[3], 15),
      sustain       |-> BitAnd(Shr(bytes[4], 4), 15),
      release       |-> BitAnd(bytes[4], 15),
      waveform      |-> BitAnd(bytes[5], 7) ]

decodeOperator(bytes) ==
    LET avekf    == bytes[1]
        ksl_l    == bytes[2]
        atdec    == bytes[3]
        susrel   == bytes[4]
        waveform == bytes[5]
    IN  [ am            |-> BitAnd(avekf, 128) # 0,
          vibrato       |-> BitAnd(avekf, 64) # 0,
          sustaining    |-> BitAnd(avekf, 32) # 0,
          ksr           |-> BitAnd(avekf, 16) # 0,
          freqMult      |-> BitAnd(avekf, 15),
          keyScaleLevel |-> BitAnd(Shr(ksl_l, 6), 3),
          totalLevel    |-> BitAnd(ksl_l, 63),
          attack        |-> BitAnd(Shr(atdec, 4), 15),
          decay         |-> BitAnd(atdec, 15),
          sustain       |-> BitAnd(Shr(susrel, 4), 15),
          release       |-> BitAnd(susrel, 15),
          waveform      |-> BitAnd(waveform, 7) ]

\* encodeOperator with the attack and sustain nibbles shifted by 3 bits
\* instead of 4.
encodeOperator_Shift3(o) ==
    LET avekf    == BitOr(BitOr(BitOr(BitOr(IF o.am THEN 128 ELSE 0,
                                            IF o.vibrato THEN 64 ELSE 0),
                                      IF o.sustaining THEN 32 ELSE 0),
                                IF o.ksr THEN 16 ELSE 0),
                          BitAnd(o.freqMult, 15))
        ksl_l    == BitOr(Shl(BitAnd(o.keyScaleLevel, 3), 6), BitAnd(o.totalLevel, 63))
        atdec    == BitOr(Shl(BitAnd(o.attack, 15), 3), BitAnd(o.decay, 15))
        susrel   == BitOr(Shl(BitAnd(o.sustain, 15), 3), BitAnd(o.release, 15))
        waveform == BitAnd(o.waveform, 7)
    IN  << ToUint8(avekf), ToUint8(ksl_l), ToUint8(atdec), ToUint8(susrel),
           ToUint8(waveform) >>

\* encodeOperator without the masks of the fields that are not shifted.
encodeOperator_Unmasked(o) ==
    LET avekf    == BitOr(BitOr(BitOr(BitOr(IF o.am THEN 128 ELSE 0,
                                            IF o.vibrato THEN 64 ELSE 0),
                                      IF o.sustaining THEN 32 ELSE 0),
                                IF o.ksr THEN 16 ELSE 0),
                          o.freqMult)
        ksl_l    == BitOr(Shl(BitAnd(o.keyScaleLevel, 3), 6), o.totalLevel)
        atdec    == BitOr(Shl(BitAnd(o.attack, 15), 4), o.decay)
        susrel   == BitOr(Shl(BitAnd(o.sustain, 15), 4), o.release)
        waveform == o.waveform
    IN  << ToUint8(avekf), ToUint8(ksl_l), ToUint8(atdec), ToUint8(susrel),
           ToUint8(waveform) >>

encodeOperator(o) ==
    LET avekf    == BitOr(BitOr(BitOr(BitOr(IF o.am THEN 128 ELSE 0,
                                            IF o.vibrato THEN 64 ELSE 0),
                                      IF o.sustaining THEN 32 ELSE 0),
                                IF o.ksr THEN 16 ELSE 0),
                          BitAnd(o.freqMult, 15))
        ksl_l    == BitOr(Shl(BitAnd(o.keyScaleLevel, 3), 6), BitAnd(o.totalLevel, 63))
        atdec    == BitOr(Shl(BitAnd(o.attack, 15), 4), BitAnd(o.decay, 15))
        susrel   == BitOr(Shl(BitAnd(o.sustain, 15), 4), BitAnd(o.release, 15))
        waveform == BitAnd(o.waveform, 7)
    IN  \* new Uint8Array([...]) stores each element modulo 256
        << ToUint8(avekf), ToUint8(ksl_l), ToUint8(atdec), ToUint8(susrel),
           ToUint8(waveform) >>

defaultOperator ==
    [ am |-> FALSE, vibrato |-> FALSE, sustaining |-> TRUE, ksr |-> FALSE,
      freqMult |-> 1, keyScaleLevel |-> 0, totalLevel |-> 63,
      attack |-> 15, decay |-> 0, sustain |-> 0, release |-> 15, waveform |-> 0 ]

---------------------------------------------------------------------------
(* Memory access: HEAPU8 indexing and the little-endian DataView over      *)
(* [ptr, ptr + SIZEOF_ADL_INSTRUMENT).  A heap is a function from          *)
(* addresses to bytes.                                                     *)

\* heap[addr] = x on a Uint8Array: the value is stored modulo 256.
StoreU8(h, addr, x) == [h EXCEPT ![addr] = ToUint8(x)]

\* The n low bytes of the two's complement pattern of v, least significant
\* byte first: byte k is floor(v / 256^k) mod 256.
RECURSIVE StoreLE(_, _, _, _)
StoreLE(h, addr, v, n) ==
    IF n = 0 THEN h
    ELSE StoreLE([h EXCEPT ![addr] = v % 256], addr + 1, v \div 256, n - 1)

\* The unsigned value of n <= 3 bytes, least significant byte first.
RECURSIVE LoadLE(_, _, _)
LoadLE(h, addr, n) ==
    IF n = 0 THEN 0 ELSE h[addr] + 256 * LoadLE(h, addr + 1, n - 1)

\* view.setInt32 / setInt16 / setUint16 (littleEndian = true) and setInt8:
\* the value is converted modulo 2^width, which keeps its low bytes.
setInt32(h, p, offset, v)  == StoreLE(h, p + offset, v, 4)
setInt16(h, p, offset, v)  == StoreLE(h, p + offset, v, 2)
setUint16(h, p, offset, v) == StoreLE(h, p + offset, v, 2)
setInt8(h, p, offset, v)   == StoreLE(h, p + offset, v, 1)

\* view.getInt32 / getInt16 / getUint16 (littleEndian = true) and getInt8
getInt32(h, p, offset) ==
    LoadLE(h, p + offset, 3) + Pow2(24) * AsInt8(h[p + offset + 3])
getInt16(h, p, offset)  == AsInt16(LoadLE(h, p + offset, 2))
getUint16(h, p, offset) == LoadLE(h, p + offset, 2)
getInt8(h, p, offset)   == AsInt8(LoadLE(h, p + offset, 1))

\* heap.slice(from, from + n) and heap.set(bytes, at)
HeapSlice(h, from, n) == [k \in 1..n |-> h[from + k - 1]]
RECURSIVE HeapSetFrom(_, _, _, _)
HeapSetFrom(h, bytes, at, k) ==
    IF k > Len(bytes) THEN h
    ELSE HeapSetFrom([h EXCEPT ![at + k - 1] = bytes[k]], bytes, at, k + 1)
HeapSet(h, bytes, at) == HeapSetFrom(h, bytes, at, 1)

---------------------------------------------------------------------------
(* Instrument records *)

\* inst.operators[i] || this.defaultOperator()   (i counted from 0)
OperatorOrDefault(i, k) ==
    IF k + 1 <= Len(i.operators) THEN i.operators[k + 1] ELSE defaultOperator

\* the operator loop of readInstrumentFromMemory
RECURSIVE ReadOperators(_, _, _, _)
ReadOperators(h, p, k, offset) ==
    IF k >= 4 THEN << >>
    ELSE << decodeOperator(HeapSlice(h, p + offset, 5)) >>
         \o ReadOperators(h, p, k + 1, offset + 5)

\* readInstrumentFromMemory reading the note offsets and the velocity offset
\* as unsigned values.
readInstrumentFromMemory_Unsigned(h, p) ==
    LET instFlags == h[p + 11]
        fbConn1   == h[p + 12]
        fbConn2   == h[p + 13]
    IN  [ version           |-> getInt32(h, p, 0),
          noteOffset1       |-> getUint16(h, p, 4),
          noteOffset2       |-> getUint16(h, p, 6),
          velocityOffset    |-> h[p + 8],
          secondVoiceDetune |-> getInt8(h, p, 9),
          percussionKey     |-> h[p + 10],
          is4op             |-> BitAnd(instFlags, 1) # 0,
          isPseudo4op       |-> BitAnd(instFlags, 2) # 0,
          isBlank           |-> BitAnd(instFlags, 4) # 0,
          rhythmMode        |-> BitAnd(Shr(instFlags, 3), 7),
          feedback1         |-> BitAnd(Shr(fbConn1, 1), 7),
          connection1       |-> BitAnd(fbConn1, 1),
          feedback2         |-> BitAnd(Shr(fbConn2, 1), 7),
          connection2       |-> BitAnd(fbConn2, 1),
          operators         |-> ReadOperators(h, p, 0, 14),
          delayOnMs         |-> getUint16(h, p, 34),
          delayOffMs        |-> getUint16(h, p, 34 + 2) ]

readInstrumentFromMemory(h, p) ==
    LET version           == getInt32(h, p, 0)
        noteOffset1       == getInt16(h, p, 4)
        noteOffset2       == getInt16(h, p, 6)
        velocityOffset    == getInt8(h, p, 8)
        secondVoiceDetune == getInt8(h, p, 9)
        percussionKey     == h[p + 10]
        instFlags         == h[p + 11]
        fbConn1           == h[p + 12]
        fbConn2           == h[p + 13]
        operators         == ReadOperators(h, p, 0, 14)
        delayOnMs         == getUint16(h, p, 34)
        delayOffMs        == getUint16(h, p, 34 + 2)
    IN  [ version           |-> version,
          noteOffset1       |-> noteOffset1,
          noteOffset2       |-> noteOffset2,
          velocityOffset    |-> velocityOffset,
          secondVoiceDetune |-> secondVoiceDetune,
          percussionKey     |-> percussionKey,
          is4op             |-> BitAnd(instFlags, 1) # 0,
          isPseudo4op       |-> BitAnd(instFlags, 2) # 0,
          isBlank           |-> BitAnd(instFlags, 4) # 0,
          rhythmMode        |-> BitAnd(Shr(instFlags, 3), 7),
          feedback1         |-> BitAnd(Shr(fbConn1, 1), 7),
          connection1       |-> BitAnd(fbConn1, 1),
          feedback2         |-> BitAnd(Shr(fbConn2, 1), 7),
          connection2       |-> BitAnd(fbConn2, 1),
          operators         |-> operators,
          delayOnMs         |-> delayOnMs,
          delayOffMs        |-> delayOffMs ]

\* an operator loop that stops at inst.operators.length
RECURSIVE WriteOperators_SkipsMissing(_, _, _, _, _)
WriteOperators_SkipsMissing(h, p, i, k, offset) ==
    IF k >= Len(i.operators) THEN h
    ELSE WriteOperators_SkipsMissing(
             HeapSet(h, encodeOperator(i.operators[k + 1]), p + offset),
             p, i, k + 1, offset + 5)

\* the operator loop of writeInstrumentToMemory
RECURSIVE WriteOperators(_, _, _, _, _)
WriteOperators(h, p, i, k, offset) ==
    IF k >= 4 THEN h
    ELSE WriteOperators(HeapSet(h, encodeOperator(OperatorOrDefault(i, k)), p + offset),
                        p, i, k + 1, offset + 5)

\* the inst_flags byte without the blank bit
InstFlags_NoBlank(i) ==
    BitOr(BitOr(IF i.is4op THEN 1 ELSE 0, IF i.isPseudo4op THEN 2 ELSE 0),
          Shl(BitAnd(i.rhythmMode, 7), 3))

\* the inst_flags byte written by writeInstrumentToMemory
InstFlags(i) ==
    LET f0 == 0
        f1 == IF i.is4op THEN BitOr(f0, 1) ELSE f0
        f2 == IF i.isPseudo4op THEN BitOr(f1, 2) ELSE f1
        f3 == IF i.isBlank THEN BitOr(f2, 4) ELSE f2
    IN  BitOr(f3, Shl(BitAnd(i.rhythmMode, 7), 3))

\* writeInstrumentToMemory with the delay fields placed as if two padding
\* bytes followed the operators (offsets 36 and 38).
writeInstrumentToMemory_PaddedDelays(h, p, i) ==
    LET h1  == setInt32(h, p, 0, i.version)
        h2  == setInt16(h1, p, 4, i.noteOffset1)
        h3  == setInt16(h2, p, 6, i.noteOffset2)
        h4  == setInt8(h3, p, 8, i.velocityOffset)
        h5  == setInt8(h4, p, 9, i.secondVoiceDetune)
        h6  == StoreU8(h5, p + 10, i.percussionKey)
        h7  == StoreU8(h6, p + 11, InstFlags(i))
        h8  == StoreU8(h7, p + 12,
                       BitOr(Shl(BitAnd(i.feedback1, 7), 1), BitAnd(i.connection1, 1)))
        h9  == StoreU8(h8, p + 13,
                       BitOr(Shl(BitAnd(i.feedback2, 7), 1), BitAnd(i.connection2, 1)))
        h10 == WriteOperators(h9, p, i, 0, 14)
        h11 == setUint16(h10, p, 36, i.delayOnMs)
    IN  setUint16(h11, p, 36 + 2, i.delayOffMs)

writeInstrumentToMemory(h, p, i) ==
    LET h1  == setInt32(h, p, 0, i.version)
        h2  == setInt16(h1, p, 4, i.noteOffset1)
        h3  == setInt16(h2, p, 6, i.noteOffset2)
        h4  == setInt8(h3, p, 8, i.velocityOffset)
        h5  == setInt8(h4, p, 9, i.secondVoiceDetune)
        h6  == StoreU8(h5, p + 10, i.percussionKey)
        h7  == StoreU8(h6, p + 11, InstFlags(i))
        h8  == StoreU8(h7, p + 12,
                       BitOr(Shl(BitAnd(i.feedback1, 7), 1), BitAnd(i.connection1, 1)))
        h9  == StoreU8(h8, p + 13,
                       BitOr(Shl(BitAnd(i.feedback2, 7), 1), BitAnd(i.connection2, 1)))
        h10 == WriteOperators(h9, p, i, 0, 14)
        h11 == setUint16(h10, p, 34, i.delayOnMs)
    IN  setUint16(h11, p, 34 + 2, i.delayOffMs)

---------------------------------------------------------------------------
(* Codec inputs.  An operator input is one of the operators the tests use  *)
(* with the fields of one register byte replaced by every in-range         *)
(* combination; an instrument input is a base instrument with one group of *)
(* fields replaced.                                                        *)

Bits(n) == 0..(Pow2(n) - 1)

RoundtripOperator ==
    [ am |-> TRUE, vibrato |-> FALSE, sustaining |-> TRUE, ksr |-> FALSE,
      freqMult |-> 5, keyScaleLevel |-> 2, totalLevel |-> 32,
      attack |-> 12, decay |-> 4, sustain |-> 8, release |-> 6, waveform |-> 3 ]

AllFlagsOperator ==
    [ am |-> TRUE, vibrato |-> TRUE, sustaining |-> TRUE, ksr |-> TRUE,
      freqMult |-> 15, keyScaleLevel |-> 3, totalLevel |-> 63,
      attack |-> 15, decay |-> 15, sustain |-> 15, release |-> 15, waveform |-> 7 ]

NoFlagsOperator ==
    [ am |-> FALSE, vibrato |-> FALSE, sustaining |-> FALSE, ksr |-> FALSE,
      freqMult |-> 0, keyScaleLevel |-> 0, totalLevel |-> 0,
      attack |-> 0, decay |-> 0, sustain |-> 0, release |-> 0, waveform |-> 0 ]

ByteValuesOperator ==
    [ am |-> TRUE, vibrato |-> TRUE, sustaining |-> FALSE, ksr |-> FALSE,
      freqMult |-> 1, keyScaleLevel |-> 0, totalLevel |-> 20,
      attack |-> 15, decay |-> 8, sustain |-> 2, release |-> 6, waveform |-> 1 ]

CustomOperator ==
    [ am |-> TRUE, vibrato |-> TRUE, sustaining |-> FALSE, ksr |-> TRUE,
      freqMult |-> 8, keyScaleLevel |-> 2, totalLevel |-> 25,
      attack |-> 10, decay |-> 5, sustain |-> 7, release |-> 9, waveform |-> 4 ]

BaseOperators ==
    { RoundtripOperator, AllFlagsOperator, NoFlagsOperator, ByteValuesOperator,
      CustomOperator, defaultOperator }

\* An operator "within its bit widths".
InRangeOperator(o) ==
    /\ o.am \in BOOLEAN /\ o.vibrato \in BOOLEAN
    /\ o.sustaining \in BOOLEAN /\ o.ksr \in BOOLEAN
    /\ o.freqMult \in Bits(4) /\ o.keyScaleLevel \in Bits(2)
    /\ o.totalLevel \in Bits(6)
    /\ o.attack \in Bits(4) /\ o.decay \in Bits(4)
    /\ o.sustain \in Bits(4) /\ o.release \in Bits(4)
    /\ o.waveform \in Bits(3)

Int32Max      == 2147483647
Int32Samples  == { -Int32Max - 1, -65537, -1, 0, 1, 256, Int32Max }
Int16Samples  == { -Pow2(15), -257, -12, 0, 7, 256, Pow2(15) - 1 }
Int8Samples   == { -Pow2(7), -5, -1, 0, 3, Pow2(7) - 1 }
Uint16Samples == { 0, 50, 100, 255, 256, Pow2(15), Pow2(16) - 1 }
Uint8Samples  == { 0, 1, 36, 127, 128, 255 }

defaultInstrument ==
    [ version |-> 0, noteOffset1 |-> 0, noteOffset2 |-> 0,
      velocityOffset |-> 0, secondVoiceDetune |-> 0, percussionKey |-> 0,
      is4op |-> FALSE, isPseudo4op |-> FALSE, isBlank |-> TRUE, rhythmMode |-> 0,
      feedback1 |-> 0, connection1 |-> 0, feedback2 |-> 0, connection2 |-> 0,
      operators |-> << defaultOperator, defaultOperator, defaultOperator,
                       defaultOperator >>,
      delayOnMs |-> 0, delayOffMs |-> 0 ]

RoundtripInstrument ==
    [ version |-> 1, noteOffset1 |-> -12, noteOffset2 |-> 7,
      velocityOffset |-> -5, secondVoiceDetune |-> 3, percussionKey |-> 36,
      is4op |-> TRUE, isPseudo4op |-> FALSE, isBlank |-> FALSE, rhythmMode |-> 2,
      feedback1 |-> 5, connection1 |-> 1, feedback2 |-> 3, connection2 |-> 0,
      operators |-> << CustomOperator, RoundtripOperator, ByteValuesOperator,
                       AllFlagsOperator >>,
      delayOnMs |-> 100, delayOffMs |-> 50 ]

\* An instrument fetched, with one field changed, to be set back.
MutatedInstrument ==
    [defaultInstrument EXCEPT !.operators[1].attack = (@ + 5) % 16]

BaseInstruments == { defaultInstrument, RoundtripInstrument }

\* An instrument "within the documented widths" with exactly 4 operators.
InRangeInstrument(i) ==
    /\ i.version >= -Int32Max - 1 /\ i.version <= Int32Max
    /\ i.noteOffset1 \in -Pow2(15)..(Pow2(15) - 1)
    /\ i.noteOffset2 \in -Pow2(15)..(Pow2(15) - 1)
    /\ i.velocityOffset \in -Pow2(7)..(Pow2(7) - 1)
    /\ i.secondVoiceDetune \in -Pow2(7)..(Pow2(7) - 1)
    /\ i.percussionKey \in Bits(8)
    /\ i.is4op \in BOOLEAN /\ i.isPseudo4op \in BOOLEAN /\ i.isBlank \in BOOLEAN
    /\ i.rhythmMode \in Bits(3)
    /\ i.feedback1 \in Bits(3) /\ i.connection1 \in Bits(1)
    /\ i.feedback2 \in Bits(3) /\ i.connection2 \in Bits(1)
    /\ Len(i.operators) = 4
    /\ \A k \in 1..4 : InRangeOperator(i.operators[k])
    /\ i.delayOnMs \in Bits(16) /\ i.delayOffMs \in Bits(16)

\* The heap of the codec runs: the 40-byte record at ptr with guard bytes
\* on both sides.
GuardBytes == 4
HeapAddrs  == 0..(GuardBytes + SIZEOF_ADL_INSTRUMENT + GuardBytes - 1)
FillValues == { 0, 255 }
FilledHeap(f) == [a \in HeapAddrs |-> f]
\* <<ptr, fill>>: the record at the bottom of a zeroed heap, or between guard
\* bytes in a heap of 0xFF.
Placements    == { << 0, 0 >>, << GuardBytes, 255 >> }

---------------------------------------------------------------------------
(* The processor's variables are idle while the codec runs, and the        *)
(* codec's while the processor runs.                                       *)

NoOperator   == NoFlagsOperator
NoInstrument == defaultInstrument
NoBytes      == << 0, 0, 0, 0, 0 >>

CodecIdle ==
    /\ cpc = "start"
    /\ op = NoOperator /\ opBytes = NoBytes /\ opOut = NoOperator
    /\ opBack = NoBytes
    /\ inst = NoInstrument /\ instOut = NoInstrument
    /\ ptr = 0 /\ fill = 0 /\ heap = FilledHeap(0)

ProcessorIdle ==
    /\ adl = "null" /\ midi = 0 /\ bufferPtr = 0
    /\ ready = FALSE /\ playMode = "realtime" /\ initDone = FALSE
    /\ live = {} /\ badFree = FALSE
    /\ settings = << >> /\ bank = << >> /\ emulator = 0
    /\ last = [kind |-> "constructor"]
    /\ posted = << >> /\ calls = << >>

\* Reply types the facade waits for.
ReplyTypes == {"instrumentLoaded", "instrumentSet", "bankLoaded", "midiLoaded",
               "state"}

\* The facade has issued no request.
FacadeIdle ==
    /\ fListeners = [t \in ReplyTypes |-> 0]
    /\ fPending = {} /\ fSettled = {} /\ fRegistered = {} /\ fSent = {}
    /\ fDelivered = {}
    /\ fCur = << >> /\ fNext = 1
    /\ chanOut = << >> /\ chanIn = << >>
    /\ fServed = << >> /\ fReplies = << >>

\* No file is being played.
PlaybackIdle == position = 0 /\ since = "none"

\* No block has been rendered.
AudioIdle ==
    /\ apc = "idle" /\ aShape = "stereo" /\ aFrames = 0
    /\ aSamples = << >> /\ aHeap = << >> /\ aOut = << >>

\* No bridge has been created.
CoreIdle ==
    /\ cModule = FALSE /\ cHandle = 0 /\ cBuffer = 0
    /\ cLive = {} /\ cReleased = << >>
    /\ cLast = [method |-> "constructor"]
    /\ cCalls = << >>

---------------------------------------------------------------------------
(* SpecCodec: choose an input, encode it, decode the result.               *)

\* One register byte's worth of operator fields replaced in a base operator.
ChooseOperator20 ==
    /\ cpc = "start"
    /\ \E b \in BaseOperators, a, v, s, k \in BOOLEAN, m \in Bits(4) :
        /\ op' = [b EXCEPT !.am = a, !.vibrato = v, !.sustaining = s, !.ksr = k,
                           !.freqMult = m]
        /\ cpc' = "opChosen"
        /\ UNCHANGED <<opBytes, opOut, inst, heap, ptr, fill, instOut, opBack, procVars, facadeVars, coreVars, audioVars, playVars>>

ChooseOperator40 ==
    /\ cpc = "start"
    /\ \E b \in BaseOperators, ksl \in Bits(2), tl \in Bits(6) :
        /\ op' = [b EXCEPT !.keyScaleLevel = ksl, !.totalLevel = tl]
        /\ cpc' = "opChosen"
        /\ UNCHANGED <<opBytes, opOut, inst, heap, ptr, fill, instOut, opBack, procVars, facadeVars, coreVars, audioVars, playVars>>

ChooseOperator60 ==
    /\ cpc = "start"
    /\ \E b \in BaseOperators, a, d \in Bits(4) :
        /\ op' = [b EXCEPT !.attack = a, !.decay = d]
        /\ cpc' = "opChosen"
        /\ UNCHANGED <<opBytes, opOut, inst, heap, ptr, fill, instOut, opBack, procVars, facadeVars, coreVars, audioVars, playVars>>

ChooseOperator80 ==
    /\ cpc = "start"
    /\ \E b \in BaseOperators, sl, r \in Bits(4) :
        /\ op' = [b EXCEPT !.sustain = sl, !.release = r]
        /\ cpc' = "opChosen"
        /\ UNCHANGED <<opBytes, opOut, inst, heap, ptr, fill, instOut, opBack, procVars, facadeVars, coreVars, audioVars, playVars>>

ChooseOperatorE0 ==
    /\ cpc = "start"
    /\ \E b \in BaseOperators, w \in Bits(3) :
        /\ op' = [b EXCEPT !.waveform = w]
        /\ cpc' = "opChosen"
        /\ UNCHANGED <<opBytes, opOut, inst, heap, ptr, fill, instOut, opBack, procVars, facadeVars, coreVars, audioVars, playVars>>

EncodeOperator ==
    /\ cpc = "opChosen"
    /\ opBytes' = encodeOperator(op)
    /\ cpc' = "opEncoded"
    /\ UNCHANGED <<op, opOut, inst, heap, ptr, fill, instOut, opBack, procVars, facadeVars, coreVars, audioVars, playVars>>

DecodeOperator ==
    /\ cpc = "opEncoded"
    /\ opOut' = decodeOperator(opBytes)
    /\ cpc' = "opDecoded"
    /\ UNCHANGED <<op, opBytes, inst, heap, ptr, fill, instOut, opBack, procVars, facadeVars, coreVars, audioVars, playVars>>

\* Field values beyond the bit widths: around each width's limit, around a
\* byte and a 16-bit boundary, and the largest 32-bit integer.
WideSamples == { 0, 7, 8, 15, 16, 17, 63, 64, 100, 255, 256, 1000, 65551, Int32Max }

\* Two numeric fields of a base operator replaced by arbitrary non-negative
\* integers: the two fields of one register byte, or freqMult and waveform.
ChooseOperatorWide ==
    /\ cpc = "start"
    /\ \E b \in BaseOperators, v, w \in WideSamples, g \in 1..4 :
        /\ op' = CASE g = 1 -> [b EXCEPT !.freqMult = v, !.waveform = w]
                    [] g = 2 -> [b EXCEPT !.keyScaleLevel = v, !.totalLevel = w]
                    [] g = 3 -> [b EXCEPT !.attack = v, !.decay = w]
                    [] g = 4 -> [b EXCEPT !.sustain = v, !.release = w]
        /\ cpc' = "opChosen"
        /\ UNCHANGED <<opBytes, opOut, inst, heap, ptr, fill, instOut, opBack, procVars, facadeVars, coreVars, audioVars, playVars>>

\* Five arbitrary bytes: one of them any byte, the others all r.
ChooseOperatorBytes ==
    /\ cpc = "start"
    /\ \E k \in 1..SIZEOF_ADL_OPERATOR, v \in 0..255, r \in {0, 165, 255} :
        /\ opBytes' = [j \in 1..SIZEOF_ADL_OPERATOR |-> IF j = k THEN v ELSE r]
        /\ cpc' = "bytesChosen"
        /\ UNCHANGED <<op, opOut, inst, heap, ptr, fill, instOut, opBack, procVars, facadeVars, coreVars, audioVars, playVars>>

\* decodeOperator applied to bytes that no encodeOperator produced.
DecodeOperatorBytes ==
    /\ cpc = "bytesChosen"
    /\ opOut' = decodeOperator(opBytes)
    /\ cpc' = "bytesDecoded"
    /\ UNCHANGED <<op, opBytes, inst, heap, ptr, fill, instOut, opBack, procVars, facadeVars, coreVars, audioVars, playVars>>

\* encodeOperator applied to the operator decoded from arbitrary bytes.
ReencodeOperator ==
    /\ cpc = "bytesDecoded"
    /\ opBack' = encodeOperator(opOut)
    /\ cpc' = "bytesReencoded"
    /\ UNCHANGED <<op, opBytes, opOut, inst, heap, ptr, fill, instOut, procVars, facadeVars, coreVars, audioVars, playVars>>

\* The caller's malloc: where the record lies and what the memory held.
Place(i, p, f) ==
    /\ inst' = i /\ ptr' = p /\ fill' = f /\ heap' = FilledHeap(f)
    /\ cpc' = "instChosen"
    /\ UNCHANGED <<op, opBytes, opOut, instOut, opBack, procVars, facadeVars, coreVars, audioVars, playVars>>

ChooseInstrumentHeader ==
    /\ cpc = "start"
    /\ \E b \in BaseInstruments, pf \in Placements,
       v \in Int32Samples, n1, n2 \in Int16Samples :
        Place([b EXCEPT !.version = v, !.noteOffset1 = n1, !.noteOffset2 = n2], pf[1], pf[2])

ChooseInstrumentBytes ==
    /\ cpc = "start"
    /\ \E b \in BaseInstruments, pf \in Placements,
       vo, sd \in Int8Samples, pk \in Uint8Samples :
        Place([b EXCEPT !.velocityOffset = vo, !.secondVoiceDetune = sd,
                        !.percussionKey = pk], pf[1], pf[2])

ChooseInstrumentFlags ==
    /\ cpc = "start"
    /\ \E a, b, c \in BOOLEAN, rm \in Bits(3), f1, f2 \in Bits(3), c1, c2 \in Bits(1) :
        Place([defaultInstrument EXCEPT
                  !.is4op = a, !.isPseudo4op = b, !.isBlank = c, !.rhythmMode = rm,
                  !.feedback1 = f1, !.connection1 = c1,
                  !.feedback2 = f2, !.connection2 = c2], GuardBytes, 255)

ChooseInstrumentOperators ==
    /\ cpc = "start"
    /\ \E b \in {RoundtripInstrument}, pf \in Placements,
       o1, o2, o3, o4 \in BaseOperators :
        Place([b EXCEPT !.operators = << o1, o2, o3, o4 >>], pf[1], pf[2])

\* An instrument carrying fewer than 4 operators.
ChooseInstrumentFewOperators ==
    /\ cpc = "start"
    /\ \E b \in BaseInstruments, pf \in Placements, n \in 0..3,
       o1, o2, o3 \in BaseOperators \ {defaultOperator} :
        Place([b EXCEPT !.operators = SubSeq(<< o1, o2, o3 >>, 1, n)], pf[1], pf[2])

ChooseInstrumentDelays ==
    /\ cpc = "start"
    /\ \E b \in BaseInstruments, pf \in Placements,
       d1, d2 \in Uint16Samples :
        Place([b EXCEPT !.delayOnMs = d1, !.delayOffMs = d2], pf[1], pf[2])

WriteInstrument ==
    /\ cpc = "instChosen"
    /\ heap' = writeInstrumentToMemory(heap, ptr, inst)
    /\ cpc' = "instWritten"
    /\ UNCHANGED <<op, opBytes, opOut, inst, ptr, fill, instOut, opBack, procVars, facadeVars, coreVars, audioVars, playVars>>

ReadInstrument ==
    /\ cpc = "instWritten"
    /\ instOut' = readInstrumentFromMemory(heap, ptr)
    /\ cpc' = "instRead"
    /\ UNCHANGED <<op, opBytes, opOut, inst, heap, ptr, fill, opBack, procVars, facadeVars, coreVars, audioVars, playVars>>

InitCodec == CodecIdle /\ ProcessorIdle /\ FacadeIdle /\ CoreIdle /\ AudioIdle /\ PlaybackIdle

NextCodec ==
    \/ ChooseOperator20 \/ ChooseOperator40 \/ ChooseOperator60
    \/ ChooseOperator80 \/ ChooseOperatorE0
    \/ ChooseOperatorWide \/ ChooseOperatorBytes
    \/ EncodeOperator \/ DecodeOperator \/ DecodeOperatorBytes \/ ReencodeOperator
    \/ ChooseInstrumentHeader \/ ChooseInstrumentBytes \/ ChooseInstrumentFlags
    \/ ChooseInstrumentOperators \/ ChooseInstrumentFewOperators
    \/ ChooseInstrumentDelays
    \/ WriteInstrument \/ ReadInstrument

SpecCodec == InitCodec /\ [][NextCodec]_vars

---------------------------------------------------------------------------
(* The processor and the native engine it calls.                           *)
(*                                                                         *)
(* A handler runs in an execution context x: the processor's fields, the   *)
(* native heap's live allocations, the engine's bank, the messages posted  *)
(* and native calls made so far, the pointers malloc returned to the       *)
(* handler, the number of steps that can throw taken so far, whether an    *)
(* exception is in flight, and the value returned.  A step is skipped      *)
(* while an exception is in flight; Catch ends the flight.  The            *)
(* environment decides which step throws (fault: the index of the throwing *)
(* step, 0 for none) and what the calls return.                            *)

\* The message of an Error a native call throws, and of the TypeError a
\* property access on undefined throws.
NativeError == "native exception"
TypeError   == "TypeError"

\* The values a handler may return besides a result object.
Undefined == [undefined |-> TRUE]
True      == [boolean |-> TRUE]

Context ==
    [ adl |-> adl, midi |-> midi, bufferPtr |-> bufferPtr, ready |-> ready,
      playMode |-> playMode, settings |-> settings,
      live |-> live, badFree |-> badFree, bank |-> bank,
      emulator |-> emulator,
      posted |-> << >>, calls |-> << >>, ptrs |-> << >>, written |-> 0,
      audio |-> << >>, bufferSize |-> 0, postedAfter |-> << >>,
      step |-> 0, exc |-> FALSE, err |-> "", result |-> Undefined ]

\* A step that may throw: the fault-th such step of a handler does.
Fallible(x, fault) ==
    IF x.exc THEN x
    ELSE [x EXCEPT !.step = @ + 1,
                   !.exc = (x.step + 1 = fault),
                   !.err = IF x.step + 1 = fault THEN NativeError ELSE @]

\* A call into the native module: it is made, and may throw.
Call(x, name, fault) ==
    IF x.exc THEN x ELSE Fallible([x EXCEPT !.calls = Append(@, name)], fault)

\* if (bad) throw new Error(message)
Throw(x, bad, message) ==
    IF ~x.exc /\ bad THEN [x EXCEPT !.exc = TRUE, !.err = message] ELSE x

\* A JavaScript statement that throws a TypeError when bad holds.
Throwing(x, bad) == Throw(x, bad, TypeError)

\* catch (error) { ... }: the exception is no longer in flight.
Catch(x) == [x EXCEPT !.exc = FALSE]

\* return value
Return(x, value) == IF x.exc THEN x ELSE [x EXCEPT !.result = value]

\* this.port.postMessage(msg); postedAfter keeps how many native calls the
\* handler had made when the message left.
Post(x, msg) ==
    IF x.exc THEN x
    ELSE [x EXCEPT !.posted = Append(@, msg),
                   !.postedAfter = Append(@, Len(x.calls))]

\* The allocator hands out the lowest free block; a block's address is a
\* multiple of BlockSpacing, and address 0 is NULL.
FRAMES           == 128
CHANNELS         == 2
BYTES_PER_SAMPLE == 2
BufferSize       == FRAMES * CHANNELS * BYTES_PER_SAMPLE
BlockSpacing     == 2 * BufferSize
RECURSIVE LowestFree(_, _)
LowestFree(used, p) == IF p \in used THEN LowestFree(used, p + BlockSpacing) ELSE p
NextPtr(x) == LowestFree(x.live, BlockSpacing)

\* const p = this.adl._malloc(size): the handler's k-th pointer is x.ptrs[k].
Allocated(x, p) ==
    IF x.exc THEN x ELSE [x EXCEPT !.live = @ \cup {p}, !.ptrs = Append(@, p)]
Malloc(x, fault) == Allocated(Call(x, "_malloc", fault), NextPtr(x))

\* this.adl._free(p)
Free(x, p) ==
    IF x.exc THEN x
    ELSE [x EXCEPT !.calls = Append(@, "_free"),
                   !.live = @ \ {p},
                   !.badFree = @ \/ p \notin x.live]

---------------------------------------------------------------------------
(* Instrument editing.  The engine keeps one 40-byte ADL_Instrument per    *)
(* slot; a slot is named by the three bytes of the ADL_BankId and the      *)
(* program number.                                                         *)

\* The bytes getInstrument / setInstrument store into the ADL_BankId struct.
BankIdBytes(bankId) ==
    << IF bankId.percussive THEN 1 ELSE 0, ToUint8(bankId.msb), ToUint8(bankId.lsb) >>

SlotOf(bankId, programNumber) == << BankIdBytes(bankId), programNumber >>

\* The memory of a freshly allocated ADL_Instrument block at p.
BlockAt(p) == [a \in p..(p + SIZEOF_ADL_INSTRUMENT - 1) |-> 0]

\* The block at p after the engine copied a 40-byte record into it, and the
\* record the engine copies out of it.
BlockHolding(p, rec) == [a \in p..(p + SIZEOF_ADL_INSTRUMENT - 1) |-> rec[a - p + 1]]
RecordIn(h, p) == [k \in 1..SIZEOF_ADL_INSTRUMENT |-> h[p + k - 1]]

\* The 40 bytes of an instrument, as the engine holds them.
RecordOf(i) == RecordIn(writeInstrumentToMemory(BlockAt(0), 0, i), 0)


\* The statements getInstrument and setInstrument start with: the ADL_BankId
\* is allocated and filled from msg.bankId, the ADL_Bank is allocated, and
\* _adl_getBank is called.  x.ptrs is then << bankIdPtr, bankPtr >>.
GetBank(x, msg, fault) ==
    Call(Malloc(Throwing(Malloc(x, fault), "bankId" \notin DOMAIN msg), fault),
         "_adl_getBank", fault)

\* this.adl._free(bankIdPtr); this.adl._free(bankPtr);
FreeBankScratch(x) ==
    IF x.exc THEN x ELSE Free(Free(x, x.ptrs[1]), x.ptrs[2])

\* ... and this.adl._free(instPtr);
FreeScratch(x) ==
    IF x.exc THEN x ELSE Free(FreeBankScratch(x), x.ptrs[3])

CatchReturn_Rethrow(x) == x

\* catch (error) { return { success: false, error: error.message }; }
CatchReturn(x) ==
    IF x.exc THEN Return(Catch(x), [success |-> FALSE, error |-> x.err]) ELSE x

\* getInstrument: the ADL_Instrument is allocated and _adl_getInstrument is
\* called; e.rcInst is what it returns.
FetchInstrument(x, e) ==
    Call(Malloc(x, e.fault), "_adl_getInstrument", e.fault)

\* getInstrument: the record the engine copied to instPtr is decoded when
\* the call succeeded, and the value to return is decided.
ReadFetched(x, msg, e) ==
    Return(x, IF e.rcInst = 0
              THEN [success |-> TRUE,
                    instrument |->
                        readInstrumentFromMemory(
                            BlockHolding(x.ptrs[3],
                                x.bank[SlotOf(msg.bankId, msg.programNumber)]),
                            x.ptrs[3])]
              ELSE [success |-> FALSE, error |-> "Failed to get instrument"])

\* getInstrument after _adl_getBank returned e.rcBank.
GetInstrumentInBank(x, msg, e) ==
    IF x.exc THEN x
    ELSE IF e.rcBank # 0
    THEN Return(FreeBankScratch(x), [success |-> FALSE, error |-> "Failed to get bank"])
    ELSE FreeScratch(ReadFetched(FetchInstrument(x, e), msg, e))

\* getInstrument(bankId, programNumber), called with the fields of msg; the
\* value it returns is the result of the context.
getInstrument(x, msg, e) ==
    CatchReturn(GetInstrumentInBank(GetBank(x, msg, e.fault), msg, e))

\* setInstrument: the ADL_Instrument is allocated, msg.instrument is written
\* to it (reading inst.version of an undefined inst throws), and
\* _adl_setInstrument is called; e.rcSet is what it returns.
StoreInstrument(x, msg, e) ==
    Call(Throwing(Malloc(x, e.fault), "instrument" \notin DOMAIN msg),
         "_adl_setInstrument", e.fault)

\* The engine's bank after _adl_setInstrument returned 0.
Stored(x, msg) ==
    [x EXCEPT !.bank[SlotOf(msg.bankId, msg.programNumber)] =
        RecordIn(writeInstrumentToMemory(BlockAt(x.ptrs[3]), x.ptrs[3],
                                         msg.instrument), x.ptrs[3])]

\* a reset made whatever _adl_setInstrument returned
ResetAfterSet_Always(x, msg, e) ==
    IF x.exc THEN x
    ELSE Call(IF e.rcSet = 0 THEN Stored(x, msg) ELSE x, "_adl_reset", e.fault)

\* if (setResult === 0) { this.adl._adl_reset(this.midi); }
ResetAfterSet(x, msg, e) ==
    IF x.exc \/ e.rcSet # 0 THEN x ELSE Call(Stored(x, msg), "_adl_reset", e.fault)

\* setInstrument after _adl_getBank returned e.rcBank.
SetInstrumentInBank(x, msg, e) ==
    IF x.exc THEN x
    ELSE IF e.rcBank # 0
    THEN Return(FreeBankScratch(x),
                [success |-> FALSE, error |-> "Failed to get/create bank"])
    ELSE Return(FreeScratch(ResetAfterSet(StoreInstrument(x, msg, e), msg, e)),
                IF e.rcSet = 0 THEN [success |-> TRUE]
                ELSE [success |-> FALSE, error |-> "Failed to set instrument"])

\* setInstrument(bankId, programNumber, instrument), called with the fields
\* of msg; the value it returns is the result of the context.
setInstrument(x, msg, e) ==
    CatchReturn(SetInstrumentInBank(GetBank(x, msg, e.fault), msg, e))

---------------------------------------------------------------------------
(* Settings, bank and MIDI loading *)

DefaultSettings ==
    [ numChips |-> 4, numFourOpChannels |-> -1, bank |-> 72,
      softPan |-> TRUE, deepVibrato |-> FALSE, deepTremolo |-> FALSE ]

\* The native setter applySettings calls for each setting, in its order.
SettingCalls ==
    << << "numChips", "_adl_setNumChips" >>,
       << "numFourOpChannels", "_adl_setNumFourOpsChn" >>,
       << "bank", "_adl_setBank" >>,
       << "softPan", "_adl_setSoftPanEnabled" >>,
       << "deepVibrato", "_adl_setHVibrato" >>,
       << "deepTremolo", "_adl_setHTremolo" >> >>

RECURSIVE ApplyFrom(_, _, _, _)
ApplyFrom(x, st, k, fault) ==
    IF k > Len(SettingCalls) THEN x
    ELSE ApplyFrom(IF SettingCalls[k][1] \in DOMAIN st
                   THEN Call(x, SettingCalls[k][2], fault) ELSE x,
                   st, k + 1, fault)

\* applySettings(settings): a setting that is not in st is undefined.
applySettings(x, st, fault) ==
    IF x.exc \/ x.midi = 0 THEN x ELSE ApplyFrom(x, st, 1, fault)

\* Object.assign(target, source) and { ...target, ...source }
Assign(target, source) ==
    [k \in DOMAIN target \cup DOMAIN source |->
        IF k \in DOMAIN source THEN source[k] ELSE target[k]]

\* const dataPtr = this.adl._malloc(data.length); ...; this.adl._free(dataPtr);
FreeData(x) == IF x.exc THEN x ELSE Free(x, x.ptrs[1])

\* catch (error): the failure reply of loadMidiData and loadBank.
CatchPost(x, type) ==
    IF x.exc
    THEN Post(Catch(x), [type |-> type, success |-> FALSE, error |-> x.err])
    ELSE x

MidiLoaded_IgnoresResult(x, e) ==
    Post(Call(x, "_adl_totalTimeLength", e.fault),
         [type |-> "midiLoaded", success |-> TRUE, duration |-> e.duration])

\* loadMidiData once _adl_openData returned e.rc; e.duration is what
\* _adl_totalTimeLength returns.
MidiLoaded(x, e) ==
    IF e.rc = 0
    THEN Post(Call(x, "_adl_totalTimeLength", e.fault),
              [type |-> "midiLoaded", success |-> TRUE, duration |-> e.duration])
    ELSE Post(x, [type |-> "midiLoaded", success |-> FALSE,
                  error |-> "Failed to parse MIDI data"])

\* loadMidiData(arrayBuffer)
loadMidiData(x, e) ==
    CatchPost(MidiLoaded(FreeData(Call(Malloc(x, e.fault), "_adl_openData", e.fault)),
                         e),
              "midiLoaded")

\* loadBank once _adl_openBankData returned e.rc.
BankLoaded(x, e) ==
    IF e.rc = 0
    THEN Post(x, [type |-> "bankLoaded", success |-> TRUE])
    ELSE Post(x, [type |-> "bankLoaded", success |-> FALSE,
                  error |-> "Failed to load bank data"])

\* loadBank(arrayBuffer)
loadBank(x, e) ==
    CatchPost(BankLoaded(FreeData(Call(Malloc(x, e.fault), "_adl_openBankData",
                                       e.fault)), e),
              "bankLoaded")

---------------------------------------------------------------------------
(* handleMessage *)

\* The cases of handleMessage that make one native call and nothing else.
ForwardedCall ==
    [ noteOn         |-> "_adl_rt_noteOn",
      noteOff        |-> "_adl_rt_noteOff",
      pitchBend      |-> "_adl_rt_pitchBendML",
      controlChange  |-> "_adl_rt_controllerChange",
      programChange  |-> "_adl_rt_patchChange",
      resetState     |-> "_adl_rt_resetState",
      panic          |-> "_adl_panic",
      setNumChips    |-> "_adl_setNumChips",
      setVolumeModel |-> "_adl_setVolumeRangeModel",
      setPercMode    |-> "_adl_setPercMode",
      setVibrato     |-> "_adl_setHVibrato",
      setTremolo     |-> "_adl_setHTremolo",
      seek           |-> "_adl_positionSeek",
      setLoop        |-> "_adl_setLoopEnabled",
      setTempo       |-> "_adl_setTempo" ]

Forward_SuppressedWhilePlaying(x, msg, fault) ==
    IF x.playMode = "file" THEN x ELSE Call(x, ForwardedCall[msg.type], fault)

\* A case that makes its one native call, whatever the play mode.
Forward(x, msg, fault) == Call(x, ForwardedCall[msg.type], fault)

\* The chip emulators by their engine ids, those compiled into the build,
\* and the name the engine reports for the active one.
NUKED_EMULATOR  == 0
DOSBOX_EMULATOR == 2
OPAL_EMULATOR   == 3
CompiledEmulators == { NUKED_EMULATOR, DOSBOX_EMULATOR }
EmulatorName(id) == IF id = DOSBOX_EMULATOR THEN "DOSBox OPL3" ELSE "Nuked OPL3"

\* What _adl_switchEmulator returns for a requested emulator.
SwitchCode(id) == IF id \in CompiledEmulators THEN 0 ELSE -1

\* The engine after _adl_switchEmulator returned e.rc.
Switched(x, msg, e) ==
    IF x.exc \/ e.rc # 0 THEN x ELSE [x EXCEPT !.emulator = msg.emulator]

EmulatorSwitched_AlwaysSuccess(x, msg, e) ==
    Post(x, [type |-> "emulatorSwitched", success |-> TRUE,
             emulator |-> msg.emulator])

\* this.port.postMessage({ type: 'emulatorSwitched', success: result === 0,
\*                         emulator: msg.emulator })
EmulatorSwitched(x, msg, e) ==
    Post(x, [type |-> "emulatorSwitched", success |-> (e.rc = 0),
             emulator |-> msg.emulator])

\* case 'configure': msg.settings is merged into this.settings and applied;
\* applySettings(undefined) throws on settings.numChips.
Configure(x, msg, fault) ==
    IF "settings" \in DOMAIN msg
    THEN Post(applySettings([x EXCEPT !.settings = Assign(@, msg.settings)],
                            msg.settings, fault),
              [type |-> "configured"])
    ELSE Post(Throwing(x, x.midi # 0), [type |-> "configured"])

\* The reply of getInstrument / setInstrument: { type, ...result }
PostResult(x, type) == Post(x, Assign([type |-> type], x.result))

\* this.playMode = mode
SetPlayMode(x, mode) == IF x.exc THEN x ELSE [x EXCEPT !.playMode = mode]

GetState_StopsAtEnd(x, e) ==
    SetPlayMode(
        Post(Call(Call(Call(x, "_adl_positionTell", e.fault),
                       "_adl_totalTimeLength", e.fault),
                  "_adl_atEnd", e.fault),
             [type |-> "state", position |-> e.position, duration |-> e.duration,
              atEnd |-> (e.rc # 0), playMode |-> x.playMode]),
        IF e.rc # 0 THEN "realtime" ELSE x.playMode)

\* case 'getState': the three native calls are made while the reply is built.
GetState(x, e) ==
    Post(Call(Call(Call(x, "_adl_positionTell", e.fault),
                   "_adl_totalTimeLength", e.fault),
              "_adl_atEnd", e.fault),
         [type |-> "state", position |-> e.position, duration |-> e.duration,
          atEnd |-> (e.rc # 0), playMode |-> x.playMode])

\* switch (msg.type) { ... }; e is what the environment does during the call.
Dispatch(x, msg, e) ==
    CASE msg.type = "ping" ->
           Post(x, [type |-> "pong", ready |-> x.ready])
      [] msg.type \in DOMAIN ForwardedCall -> Forward(x, msg, e.fault)
      [] msg.type = "configure" -> Configure(x, msg, e.fault)
      [] msg.type = "loadBank" -> loadBank(x, e)
      [] msg.type = "setBank" ->
           Post(Call(x, "_adl_setBank", e.fault),
                [type |-> "bankSet", success |-> (e.rc = 0), bank |-> msg.bank])
      [] msg.type = "getInstrument" ->
           PostResult(getInstrument(x, msg, e), "instrumentLoaded")
      [] msg.type = "setInstrument" ->
           PostResult(setInstrument(x, msg, e), "instrumentSet")
      [] msg.type = "switchEmulator" ->
           EmulatorSwitched(
               Switched(Call(x, "_adl_switchEmulator", e.fault), msg, e),
               msg, e)
      [] msg.type = "getEmulatorName" ->
           \* e.rc is the pointer _adl_chipEmulatorName returns
           Post(Call(x, "_adl_chipEmulatorName", e.fault),
                [type |-> "emulatorName",
                 name |-> IF e.rc # 0 THEN EmulatorName(x.emulator)
                          ELSE "Unknown"])
      [] msg.type = "loadMidi" -> loadMidiData(x, e)
      [] msg.type = "play" -> SetPlayMode(x, "file")
      [] msg.type = "stop" ->
           Call(Call(SetPlayMode(x, "realtime"), "_adl_positionRewind", e.fault),
                "_adl_panic", e.fault)
      [] msg.type = "getState" -> GetState(x, e)
      [] msg.type = "reset" ->
           SetPlayMode(Call(x, "_adl_reset", e.fault), "realtime")
      [] OTHER -> x

handleMessage_Unguarded(x, msg, e) == Dispatch(x, msg, e)

\* handleMessage(msg)
handleMessage(x, msg, e) ==
    IF ~x.ready /\ msg.type # "ping" THEN x ELSE Dispatch(x, msg, e)

---------------------------------------------------------------------------
(* initWasm and process *)

EngineHandle == 512

\* this.adl = await createADLMIDI(...): the load may be rejected; heap16
\* says whether the module exposes HEAP16.
LoadModule(x, fault, heap16) ==
    IF Fallible(x, fault).exc THEN Fallible(x, fault)
    ELSE [Fallible(x, fault) EXCEPT !.adl = IF heap16 THEN "module"
                                            ELSE "moduleNoHeap16"]

\* this.midi = this.adl._adl_init(this.sampleRate), which returns handle.
Assigned(x, field, value) == IF x.exc THEN x ELSE [x EXCEPT ![field] = value]
AdlInit_Unchecked(x, fault, handle) ==
    Assigned(Call(x, "_adl_init", fault), "midi", handle)

AdlInit(x, fault, handle) ==
    Throw(Assigned(Call(x, "_adl_init", fault), "midi", handle),
          handle = 0, "Failed to initialize ADL MIDI player")

AllocBuffer_OneChannel(x, fault) ==
    Assigned(Malloc(Assigned(x, "bufferSize", FRAMES * BYTES_PER_SAMPLE), fault),
             "bufferPtr", NextPtr(x))

\* this.bufferSize = FRAMES * CHANNELS * BYTES_PER_SAMPLE;
\* this.bufferPtr = this.adl._malloc(this.bufferSize)
AllocBuffer(x, fault) ==
    Assigned(Malloc(Assigned(x, "bufferSize", BufferSize), fault),
             "bufferPtr", NextPtr(x))

Announce_SilentOnError(x) ==
    IF x.exc THEN Catch(x) ELSE Post([x EXCEPT !.ready = TRUE], [type |-> "ready"])

\* The end of the try block and the catch of initWasm.
Announce(x) ==
    IF x.exc
    THEN Post(Catch(x), [type |-> "error", message |-> x.err])
    ELSE Post([x EXCEPT !.ready = TRUE], [type |-> "ready"])

\* The part of initWasm that runs once createADLMIDI settles.
initWasm(x, fault, handle, heap16) ==
    Announce(
      Throw(AllocBuffer(
              applySettings(AdlInit(LoadModule(x, fault, heap16), fault, handle),
                            x.settings, fault),
              fault),
            ~heap16, "HEAP16 is not available after initialization"))

\* The output shapes process() may be handed: outputs[0] missing, an empty
\* channel list, one channel, two channels.
OutputShapes == { "none", "empty", "mono", "stereo" }

\* The lengths the output channels may have (const frames = left.length):
\* the render quantum of the audio context, 128 unless it was configured.
RenderQuanta == { FRAMES \div 2, FRAMES, 2 * FRAMES }

\* The try block of process(): the engine renders one block (fault 1: the
\* call throws), the samples are viewed as an Int16Array (fault 2: the view
\* cannot be created) and copied to left[i] and right[i].
\* Requested records the engine call with its arguments: sampleCount =
\* frames * 2 and this.bufferPtr.
Requested(x, name, frames) ==
    [x EXCEPT !.audio = Append(@, [name |-> name, sampleCount |-> frames * 2,
                                   buffer |-> x.bufferPtr])]

Render_AlwaysGenerate(x, frames, fault) ==
    Assigned(Fallible(Call(Requested(x, "_adl_generate", frames), "_adl_generate",
                           fault),
                      fault),
             "written", 2 * frames)

Render(x, frames, fault) ==
    Assigned(Fallible(
               IF x.playMode = "file"
               THEN Call(Requested(x, "_adl_play", frames), "_adl_play", fault)
               ELSE Call(Requested(x, "_adl_generate", frames), "_adl_generate",
                         fault),
               fault),
             "written", 2 * frames)

CatchProcessing_Rethrow(x) == x

\* catch (e) { this.port.postMessage({ type: 'processingError', ... }) }
CatchProcessing(x) ==
    IF x.exc
    THEN Post(Catch(x), [type |-> "processingError", error |-> x.err])
    ELSE x

\* process(_inputs, outputs, _parameters); frames is left.length
process_NoKeepAliveWhenIdle(x, shape, frames, fault) ==
    IF ~x.ready \/ x.midi = 0 \/ x.adl # "module" THEN x
    ELSE IF shape \in {"none", "empty"} THEN x
    ELSE Return(CatchProcessing(Render(x, frames, fault)), True)

process_IgnoresReady(x, shape, frames, fault) ==
    IF x.midi = 0 \/ x.adl # "module" THEN Return(x, True)
    ELSE IF shape \in {"none", "empty"} THEN Return(x, True)
    ELSE Return(CatchProcessing(Render(x, frames, fault)), True)

process(x, shape, frames, fault) ==
    IF ~x.ready \/ x.midi = 0 \/ x.adl # "module" THEN Return(x, True)
    ELSE IF shape \in {"none", "empty"} THEN Return(x, True)
    ELSE Return(CatchProcessing(Render(x, frames, fault)), True)

---------------------------------------------------------------------------
(* Inbound messages and what the environment may do while one is handled *)

MelodicBank    == [percussive |-> FALSE, msb |-> 0, lsb |-> 0]
PercussiveBank == [percussive |-> TRUE, msb |-> 0, lsb |-> 0]
BankIds  == { MelodicBank, PercussiveBank }
Programs == { 0 }
Slots    == { SlotOf(b, n) : b \in BankIds, n \in Programs }

Messages ==
    { [type |-> "ping"],
      [type |-> "noteOn", channel |-> 0, note |-> 60, velocity |-> 100],
      [type |-> "noteOff", channel |-> 0, note |-> 60],
      [type |-> "pitchBend", channel |-> 0, lsb |-> 0, msb |-> 64],
      [type |-> "controlChange", channel |-> 0, controller |-> 7, value |-> 127],
      [type |-> "programChange", channel |-> 0, program |-> 1],
      [type |-> "resetState"],
      [type |-> "panic"],
      [type |-> "configure", settings |-> [numChips |-> 2, softPan |-> FALSE]],
      [type |-> "configure"],
      [type |-> "loadBank", data |-> "wopl"],
      [type |-> "setBank", bank |-> 14],
      [type |-> "getInstrument", programNumber |-> 0],
      [type |-> "setInstrument", bankId |-> PercussiveBank, programNumber |-> 0],
      [type |-> "setNumChips", chips |-> 2],
      [type |-> "setVolumeModel", model |-> 1],
      [type |-> "setPercMode", enabled |-> TRUE],
      [type |-> "setVibrato", enabled |-> TRUE],
      [type |-> "setTremolo", enabled |-> TRUE],
      [type |-> "switchEmulator", emulator |-> DOSBOX_EMULATOR],
      [type |-> "switchEmulator", emulator |-> OPAL_EMULATOR],
      [type |-> "getEmulatorName"],
      [type |-> "loadMidi", data |-> "midi"],
      [type |-> "play"],
      [type |-> "stop"],
      [type |-> "seek", position |-> 1],
      [type |-> "setLoop", enabled |-> TRUE],
      [type |-> "setTempo", tempo |-> 2],
      [type |-> "getState"],
      [type |-> "reset"],
      [type |-> "bogus"] }
    \cup { [type |-> "getInstrument", bankId |-> b, programNumber |-> n] :
              b \in BankIds, n \in Programs }
    \cup { [type |-> "setInstrument", bankId |-> MelodicBank, programNumber |-> n,
            instrument |-> i] :
              n \in Programs, i \in {RoundtripInstrument, MutatedInstrument} }

\* How many steps of the handler of msg can throw, at most.
FallibleSteps(msg) ==
    CASE msg.type \in DOMAIN ForwardedCall -> 1
      [] msg.type \in {"setBank", "switchEmulator", "getEmulatorName", "reset"} -> 1
      [] msg.type = "configure" ->
            IF "settings" \in DOMAIN msg THEN Cardinality(DOMAIN msg.settings) ELSE 0
      [] msg.type = "stop" -> 2
      [] msg.type = "loadBank" -> 2
      [] msg.type \in {"loadMidi", "getState"} -> 3
      [] msg.type = "getInstrument" -> 5
      [] msg.type = "setInstrument" -> 6
      [] OTHER -> 0

SomeDuration == 12
SomePosition == 3

\* Every call returns success and nothing throws.
Calm ==
    [ fault |-> 0, rc |-> 0, rcBank |-> 0, rcInst |-> 0, rcSet |-> 0,
      duration |-> SomeDuration, position |-> SomePosition ]

\* What the environment may do while msg is handled: one step throws, or one
\* native call returns a failure code (for getState and getEmulatorName: a
\* non-zero answer).
Environments(msg) ==
    IF msg.type = "switchEmulator"
    THEN { [Calm EXCEPT !.fault = f, !.rc = SwitchCode(msg.emulator)] :
              f \in 0..FallibleSteps(msg) }
    ELSE
    { [Calm EXCEPT !.fault = f] : f \in 0..FallibleSteps(msg) }
    \cup (IF msg.type \in {"setBank", "getEmulatorName",
                           "loadBank", "loadMidi", "getState"}
          THEN { [Calm EXCEPT !.rc = -1] } ELSE {})
    \cup (IF msg.type \in {"getInstrument", "setInstrument"}
          THEN { [Calm EXCEPT !.rcBank = -1], [Calm EXCEPT !.rcInst = -1,
                                                            !.rcSet = -1] }
          ELSE {})

---------------------------------------------------------------------------
(* Spec: the processor *)

\* Messages are delivered while at most MaxLive native blocks are allocated.
MaxLive == 1

InitialBank == [s \in Slots |-> RecordOf(defaultInstrument)]

Init ==
    /\ CodecIdle /\ FacadeIdle /\ CoreIdle /\ AudioIdle /\ PlaybackIdle
    /\ adl = "null" /\ midi = 0 /\ bufferPtr = 0
    /\ ready = FALSE /\ playMode = "realtime" /\ initDone = FALSE
    /\ live = {} /\ badFree = FALSE
    /\ settings = DefaultSettings
    /\ bank = InitialBank /\ emulator = NUKED_EMULATOR
    /\ last = [kind |-> "constructor"]
    /\ posted = << >> /\ calls = << >>

\* A handler ran in context x: the fields of the processor and the state of
\* the engine are those of x, and last records what ran and how it ended:
\* the message of the exception raised ("" for none), whether it escaped,
\* the value returned, the output stores made, the pointers allocated, the
\* audio requests made to the engine and the moment of each post.
Ran(x, what) ==
    /\ adl' = x.adl /\ midi' = x.midi /\ bufferPtr' = x.bufferPtr
    /\ ready' = x.ready /\ playMode' = x.playMode /\ settings' = x.settings
    /\ live' = x.live /\ badFree' = x.badFree /\ bank' = x.bank
    /\ emulator' = x.emulator
    /\ posted' = x.posted /\ calls' = x.calls
    /\ last' = Assign(what, [wasReady |-> ready, raised |-> x.err,
                              threw |-> x.exc, returned |-> x.result,
                              written |-> x.written, allocated |-> x.ptrs,
                              audio |-> x.audio, bufferSize |-> x.bufferSize,
                              postedAfter |-> x.postedAfter])

\* createADLMIDI settles and the rest of initWasm runs.
InitWasm ==
    /\ ~initDone
    /\ initDone' = TRUE
    /\ UNCHANGED <<codecVars, facadeVars, coreVars, audioVars, playVars>>
    /\ \E fault \in 0..9, handle \in {0, EngineHandle}, heap16 \in BOOLEAN :
        Ran(initWasm(Context, fault, handle, heap16), [kind |-> "initWasm"])

\* port.onmessage: one inbound message is handled.
HandleMessage ==
    /\ Cardinality(live) <= MaxLive
    /\ UNCHANGED <<initDone, codecVars, facadeVars, coreVars, audioVars, playVars>>
    /\ \E msg \in Messages :
        \E e \in Environments(msg) :
            Ran(handleMessage(Context, msg, e),
                [kind |-> "message", msg |-> msg, env |-> e])

\* The audio subsystem asks for one block.
Process ==
    /\ UNCHANGED <<initDone, codecVars, facadeVars, coreVars, audioVars, playVars>>
    /\ \E shape \in OutputShapes, frames \in RenderQuanta, fault \in 0..2 :
        Ran(process(Context, shape, frames, fault),
            [kind |-> "process", shape |-> shape, frames |-> frames])

Next == InitWasm \/ HandleMessage \/ Process

Spec == Init /\ [][Next]_vars

\* createADLMIDI settles: the continuation of initWasm is eventually run.
\* InitWasm is the only step that sets initDone and is enabled until it ran.
ModuleSettles == ~initDone /\ initDone' = TRUE
SpecFair == Spec /\ WF_initDone(ModuleSettles)

---------------------------------------------------------------------------
(* SpecFacade: the control-side facade talking to a ready processor.       *)
(* The facade keeps one one-shot listener per reply type; the processor    *)
(* answers each request with handleMessage, whose replies name a type and  *)
(* no request.                                                             *)

\* At most MaxRequests requests are issued.
MaxRequests == 3

\* The reply type each request with a natural reply waits for.
ExpectedReply ==
    [ getInstrument |-> "instrumentLoaded",
      setInstrument |-> "instrumentSet",
      loadBank      |-> "bankLoaded",
      loadMidi      |-> "midiLoaded",
      getState      |-> "state" ]

\* The requests the application issues through the facade.
FacadeRequests ==
    { msg \in Messages :
        \/ msg.type \in {"loadMidi", "getState"}
        \/ msg.type = "getInstrument" /\ "bankId" \in DOMAIN msg }

\* The listener of request id is stored under the reply type; a listener
\* already stored under that type is replaced.
onceMessage(listeners, type, id) == [listeners EXCEPT ![type] = id]

\* The processor as its constructor leaves it.
Constructed ==
    [ adl |-> "null", midi |-> 0, bufferPtr |-> 0, ready |-> FALSE,
      playMode |-> "realtime", settings |-> DefaultSettings,
      live |-> {}, badFree |-> FALSE, bank |-> InitialBank,
      emulator |-> NUKED_EMULATOR,
      posted |-> << >>, calls |-> << >>, ptrs |-> << >>, written |-> 0,
      audio |-> << >>, bufferSize |-> 0, postedAfter |-> << >>,
      step |-> 0, exc |-> FALSE, err |-> "", result |-> Undefined ]

\* The processor once initWasm has succeeded.
Booted == initWasm(Constructed, 0, EngineHandle, TRUE)

InitFacade ==
    /\ CodecIdle /\ CoreIdle /\ FacadeIdle /\ AudioIdle /\ PlaybackIdle
    /\ adl = Booted.adl /\ midi = Booted.midi /\ bufferPtr = Booted.bufferPtr
    /\ ready = Booted.ready /\ playMode = Booted.playMode
    /\ initDone = TRUE
    /\ live = Booted.live /\ badFree = Booted.badFree
    /\ settings = Booted.settings /\ bank = Booted.bank
    /\ emulator = Booted.emulator
    /\ last = [kind |-> "initWasm"]
    /\ posted = Booted.posted /\ calls = Booted.calls

\* A request method starts: the promise is created and its listener is
\* registered under the expected reply type.
RegisterListener ==
    /\ fCur = << >>
    /\ fNext <= MaxRequests
    /\ \E msg \in FacadeRequests :
        /\ fListeners' = onceMessage(fListeners, ExpectedReply[msg.type], fNext)
        /\ fCur' = << [id |-> fNext, body |-> msg] >>
    /\ fPending' = fPending \cup {fNext}
    /\ fRegistered' = fRegistered \cup {fNext}
    /\ fNext' = fNext + 1
    /\ UNCHANGED <<fSettled, fSent, fDelivered, chanOut, chanIn,
                   fServed, fReplies,
                   codecVars, procVars, coreVars, audioVars, playVars>>

\* The request method ends: the message is posted to the processor.
PostRequest ==
    /\ fCur # << >>
    /\ chanOut' = Append(chanOut, fCur[1])
    /\ fSent' = fSent \cup {fCur[1].id}
    /\ fCur' = << >>
    /\ UNCHANGED <<fListeners, fPending, fSettled, fRegistered, fDelivered,
                   fNext, chanIn, fServed, fReplies, codecVars, procVars, coreVars, audioVars, playVars>>

\* The messages a handler posted, each with the request it answers.
Tagged(replies, id) ==
    [k \in 1..Len(replies) |-> [reply |-> replies[k], for |-> id]]

Served(x, req, e) ==
    /\ Ran(x, [kind |-> "message", msg |-> req.body, env |-> e])
    /\ chanIn' = chanIn \o Tagged(x.posted, req.id)
    /\ fServed' = Append(fServed, req)
    /\ fReplies' = fReplies \o Tagged(x.posted, req.id)

\* The processor handles the oldest request in flight.
Serve ==
    /\ chanOut # << >>
    /\ chanOut' = Tail(chanOut)
    /\ \E e \in Environments(Head(chanOut).body) :
        Served(handleMessage(Context, Head(chanOut).body, e), Head(chanOut), e)
    /\ UNCHANGED <<fListeners, fPending, fSettled, fRegistered, fSent,
                   fDelivered, fCur, fNext, initDone, codecVars, coreVars, audioVars, playVars>>

\* The listener stored under the type of the reply, if any, is removed and
\* settles the promise of the request it belongs to.
handleReply(m) ==
    IF m.reply.type \in ReplyTypes /\ fListeners[m.reply.type] # 0
    THEN /\ fListeners' = [fListeners EXCEPT ![m.reply.type] = 0]
         /\ fPending' = fPending \ {fListeners[m.reply.type]}
         /\ fSettled' = fSettled \cup
                          {[req |-> fListeners[m.reply.type], by |-> m.for]}
    ELSE UNCHANGED <<fListeners, fPending, fSettled>>

\* The oldest reply in flight arrives at the facade, between request calls.
Deliver ==
    /\ fCur = << >>
    /\ chanIn # << >>
    /\ chanIn' = Tail(chanIn)
    /\ fDelivered' = fDelivered \cup {Head(chanIn).for}
    /\ handleReply(Head(chanIn))
    /\ UNCHANGED <<fRegistered, fSent, fCur, fNext, chanOut, fServed, fReplies,
                   codecVars, procVars, coreVars, audioVars, playVars>>

NextFacade == RegisterListener \/ PostRequest \/ Serve \/ Deliver

SpecFacade == InitFacade /\ [][NextFacade]_vars

---------------------------------------------------------------------------
(* SpecCore: one instance of the low-level synthesis bridge.               *)
(* Native resources (engine handles, generation buffers) are numbered from *)
(* 1 in the order they are created; 0 is null.                             *)

\* At most MaxResources native resources are created.
MaxResources == 3

NotInitialized == "not initialized"
InitFailed     == "Failed to initialize"

\* The bridge as a method finds it.
Bridge ==
    [ handle |-> cHandle, buffer |-> cBuffer, live |-> cLive,
      released |-> cReleased, calls |-> << >>, threw |-> "",
      result |-> Undefined ]

\* The number of the next native resource.
Fresh(b) == Len(b.released) + 1

\* A native call on the handle the bridge holds.
Native(b, name) ==
    [b EXCEPT !.calls = Append(@, [name |-> name, handle |-> b.handle])]

\* A native resource is released: _free or adl_close.
Release(b, name, r) ==
    [b EXCEPT !.calls = Append(@, [name |-> name, handle |-> r]),
              !.live = @ \ {r},
              !.released[r] = @ + 1]

\* init(sampleRate): adl_init answers a new handle, or null.
init(b, ok) ==
    IF ok
    THEN [b EXCEPT !.calls = Append(@, [name |-> "_adl_init", handle |-> 0]),
                   !.handle = Fresh(b),
                   !.live = @ \cup {Fresh(b)},
                   !.released = Append(@, 0)]
    ELSE [b EXCEPT !.calls = Append(@, [name |-> "_adl_init", handle |-> 0]),
                   !.threw = InitFailed]

checkInit_Skipped(b) == b

\* Every method but init and close starts by checking the handle.
checkInit(b) ==
    IF b.handle = 0 THEN [b EXCEPT !.threw = NotInitialized] ELSE b

\* The native function behind each pass-through method.
NativeOf ==
    [ noteOn           |-> "_adl_rt_noteOn",
      noteOff          |-> "_adl_rt_noteOff",
      pitchBend        |-> "_adl_rt_pitchBendML",
      controllerChange |-> "_adl_rt_controllerChange",
      programChange    |-> "_adl_rt_patchChange",
      setBank          |-> "_adl_setBank",
      getInstrument    |-> "_adl_getInstrument",
      setInstrument    |-> "_adl_setInstrument",
      loadMidi         |-> "_adl_openData",
      generate         |-> "_adl_generate",
      play             |-> "_adl_play" ]

\* A pass-through control method; setBank, setInstrument and loadMidi answer
\* the success flag of the native return code.
control(b, name, rc) ==
    IF checkInit(b).threw # "" THEN checkInit(b)
    ELSE IF name \in {"setBank", "setInstrument", "loadMidi"}
         THEN [Native(b, NativeOf[name]) EXCEPT !.result = [boolean |-> rc = 0]]
         ELSE Native(b, NativeOf[name])

\* The generation buffer is allocated when first needed.
EnsureBuffer(b) ==
    IF b.buffer # 0 THEN b
    ELSE [b EXCEPT !.calls = Append(@, [name |-> "_malloc", handle |-> 0]),
                   !.buffer = Fresh(b),
                   !.live = @ \cup {Fresh(b)},
                   !.released = Append(@, 0)]

\* generate(frameCount) and play(frameCount).
render(b, name) ==
    IF checkInit(b).threw # "" THEN checkInit(b)
    ELSE Native(EnsureBuffer(b), NativeOf[name])

FreeBuffer(b) ==
    IF b.buffer = 0 THEN b
    ELSE [Release(b, "_free", b.buffer) EXCEPT !.buffer = 0]

CloseHandle(b) ==
    IF b.handle = 0 THEN b
    ELSE [Release(b, "_adl_close", b.handle) EXCEPT !.handle = 0]

close_KeepsFields(b) ==
    IF b.handle = 0 THEN b
    ELSE Release(IF b.buffer = 0 THEN b ELSE Release(b, "_free", b.buffer),
                 "_adl_close", b.handle)

\* close(): frees the generation buffer and destroys the engine handle.
close(b) == CloseHandle(FreeBuffer(b))

\* A method ran and left the bridge as b.
Called(b, method) ==
    /\ cHandle' = b.handle /\ cBuffer' = b.buffer
    /\ cLive' = b.live /\ cReleased' = b.released
    /\ cCalls' = b.calls
    /\ cLast' = [method |-> method, before |-> cHandle, held |-> {cHandle, cBuffer} \ {0},
                 liveBefore |-> cLive, threw |-> b.threw, result |-> b.result]
    /\ UNCHANGED <<cModule, codecVars, procVars, facadeVars, audioVars, playVars>>

InitCore ==
    /\ CodecIdle /\ ProcessorIdle /\ FacadeIdle /\ CoreIdle /\ AudioIdle /\ PlaybackIdle

\* AdlMidiCore.create(config): the module is loaded, or the promise is
\* rejected (no module location configured).
Create ==
    /\ ~cModule
    /\ \E ok \in BOOLEAN :
        /\ cModule' = ok
        /\ cLast' = [method |-> "create", before |-> 0, held |-> {},
                     liveBefore |-> {},
                     threw |-> IF ok THEN "" ELSE "corePath is required",
                     result |-> Undefined]
    /\ UNCHANGED <<cHandle, cBuffer, cLive, cReleased, cCalls,
                   codecVars, procVars, facadeVars, audioVars, playVars>>

CoreInit ==
    /\ cModule
    /\ Len(cReleased) < MaxResources
    /\ \E ok \in BOOLEAN : Called(init(Bridge, ok), "init")

ControlMethod ==
    /\ cModule
    /\ \E name \in DOMAIN NativeOf \ {"generate", "play"}, rc \in {0, -1} :
        Called(control(Bridge, name, rc), name)

Generate ==
    /\ cModule
    /\ cBuffer # 0 \/ Len(cReleased) < MaxResources
    /\ \E name \in {"generate", "play"} : Called(render(Bridge, name), name)

Close ==
    /\ cModule
    /\ Called(close(Bridge), "close")

NextCore == Create \/ CoreInit \/ ControlMethod \/ Generate \/ Close

SpecCore == InitCore /\ [][NextCore]_vars

---------------------------------------------------------------------------
(* SpecAudio: the sample conversion at the end of process().  The engine   *)
(* leaves frames * 2 interleaved signed 16-bit samples, least significant  *)
(* byte first, in the generation buffer; process() views them as an        *)
(* Int16Array and copies them, divided by 32768, to the output channels.   *)

\* A block has at most MaxFrames frames.
MaxFrames == 2

\* The sample values the engine may produce.
SampleValues == { -Pow2(15), -1, 0, 1, Pow2(15) - 1 }

\* Where the generation buffer lies in the module's memory.
AudioBufferPtr == CHANNELS * BYTES_PER_SAMPLE

\* The memory once the engine has rendered the interleaved samples s to at.
RECURSIVE EngineWrites(_, _, _, _)
EngineWrites(h, at, s, k) ==
    IF k > Len(s) THEN h
    ELSE EngineWrites(setInt16(h, at, BYTES_PER_SAMPLE * (k - 1), s[k] % Pow2(16)),
                      at, s, k + 1)

Int16ArrayAt_Unsigned(h, byteOffset, k) == getUint16(h, byteOffset, BYTES_PER_SAMPLE * k)

\* heap16[k] of heap16 = new Int16Array(buffer, byteOffset, sampleCount)
Int16ArrayAt(h, byteOffset, k) == getInt16(h, byteOffset, BYTES_PER_SAMPLE * k)

\* heap16[k] / 32768.0: the quotient is kept as numerator and denominator
\* (a 16-bit numerator over a power of two is exact in a Float32Array).
Scaled(sample) == [num |-> sample, den |-> Pow2(15)]

\* The channels handed to process(): one or two arrays of frames zeros.
OutputOf(shape, frames) ==
    [c \in 1..(IF shape = "stereo" THEN 2 ELSE 1) |->
        [i \in 1..frames |-> Scaled(0)]]

\* const right = output[1] || output[0]: the channel right[i] is stored to.
RightOf(out) == IF Len(out) >= 2 THEN 2 ELSE 1

RECURSIVE CopySamples_LeftLast(_, _, _, _, _)
CopySamples_LeftLast(out, h, at, i, frames) ==
    IF i >= frames THEN out
    ELSE CopySamples_LeftLast(
           [[out EXCEPT ![RightOf(out)][i + 1] =
                            Scaled(Int16ArrayAt(h, at, i * 2 + 1))]
                 EXCEPT ![1][i + 1] = Scaled(Int16ArrayAt(h, at, i * 2))],
           h, at, i + 1, frames)

\* for (let i = 0; i < frames; i++) {
\*     left[i] = heap16[i * 2] / 32768.0; right[i] = heap16[i * 2 + 1] / 32768.0; }
RECURSIVE CopySamples(_, _, _, _, _)
CopySamples(out, h, at, i, frames) ==
    IF i >= frames THEN out
    ELSE CopySamples(
           [[out EXCEPT ![1][i + 1] = Scaled(Int16ArrayAt(h, at, i * 2))]
                 EXCEPT ![RightOf(out)][i + 1] =
                            Scaled(Int16ArrayAt(h, at, i * 2 + 1))],
           h, at, i + 1, frames)

\* The engine call of process() returns: the buffer holds frames * 2 samples.
EngineRenders ==
    /\ apc = "idle"
    /\ \E shape \in {"stereo", "mono"}, frames \in 1..MaxFrames :
        \E s \in [1..(frames * 2) -> SampleValues] :
            /\ aShape' = shape /\ aFrames' = frames /\ aSamples' = s
            /\ aHeap' = EngineWrites(
                            [a \in 0..(AudioBufferPtr + MaxFrames * CHANNELS
                                         * BYTES_PER_SAMPLE - 1) |-> 0],
                            AudioBufferPtr, s, 1)
            /\ aOut' = OutputOf(shape, frames)
    /\ apc' = "generated"
    /\ UNCHANGED <<codecVars, procVars, facadeVars, coreVars, playVars>>

\* The copy loop of process() runs.
ConvertSamples ==
    /\ apc = "generated"
    /\ aOut' = CopySamples(aOut, aHeap, AudioBufferPtr, 0, aFrames)
    /\ apc' = "converted"
    /\ UNCHANGED <<aShape, aFrames, aSamples, aHeap,
                   codecVars, procVars, facadeVars, coreVars, playVars>>

\* return true: the block is handed back and the next one may start.
BlockReturned ==
    /\ apc = "converted"
    /\ apc' = "idle" /\ aShape' = "stereo" /\ aFrames' = 0
    /\ aSamples' = << >> /\ aHeap' = << >> /\ aOut' = << >>
    /\ UNCHANGED <<codecVars, procVars, facadeVars, coreVars, playVars>>

NextAudio == EngineRenders \/ ConvertSamples \/ BlockReturned

SpecAudio == InitCodec /\ [][NextAudio]_vars

---------------------------------------------------------------------------
(* SpecPlayback: a ready processor playing a file.  The engine's file      *)
(* position is counted in rendered blocks; the file ends after MaxPosition *)
(* blocks.                                                                 *)

MaxPosition == 2

\* The messages of file playback.
PlaybackMessages ==
    { msg \in Messages :
        msg.type \in {"loadMidi", "play", "stop", "seek", "getState", "reset"} }

\* The k-th native call of a handler returned (it was not the one that threw).
Returned(x, k) == ~(x.err = NativeError /\ k = Len(x.calls))

\* The file position after one native call that returned.
Moved(pos, call, msg, e) ==
    CASE call = "_adl_positionRewind" -> 0
      [] call = "_adl_positionSeek" -> msg.position
      [] call = "_adl_openData" -> IF e.rc = 0 THEN 0 ELSE pos
      [] call = "_adl_play" -> IF pos < MaxPosition THEN pos + 1 ELSE pos
      [] OTHER -> pos

\* The file position after the native calls of a handler, from the k-th on.
RECURSIVE EngineMoves(_, _, _, _, _)
EngineMoves(pos, x, msg, e, k) ==
    IF k > Len(x.calls) THEN pos
    ELSE EngineMoves(IF Returned(x, k) THEN Moved(pos, x.calls[k], msg, e) ELSE pos,
                     x, msg, e, k + 1)

\* Which of play and stop is still in force once a message of a type was
\* handled: a seek ends the effect of a stop, a reset that of a play.
Since(s, type) ==
    CASE type \in {"play", "stop"} -> type
      [] type = "seek" -> IF s = "stop" THEN "none" ELSE s
      [] type = "reset" -> IF s = "play" THEN "none" ELSE s
      [] OTHER -> s

\* _adl_positionTell answers the engine's position.
Told(e) == [e EXCEPT !.position = position]

InitPlayback == InitFacade

Played(x, what, msg, e) ==
    /\ Ran(x, what)
    /\ position' = EngineMoves(position, x, msg, e, 1)
    /\ since' = Since(since, msg.type)

\* port.onmessage: one playback message is handled.
PlaybackMessage ==
    /\ Cardinality(live) <= MaxLive
    /\ UNCHANGED <<initDone, codecVars, facadeVars, coreVars, audioVars>>
    /\ \E msg \in PlaybackMessages :
        \E e \in Environments(msg) :
            Played(handleMessage(Context, msg, Told(e)),
                   [kind |-> "message", msg |-> msg, env |-> Told(e)], msg, e)

\* The audio subsystem asks for one block; the engine call may throw.
PlaybackBlock ==
    /\ UNCHANGED <<initDone, codecVars, facadeVars, coreVars, audioVars>>
    /\ \E fault \in 0..1 :
        Played(process(Context, "stereo", FRAMES, fault),
               [kind |-> "process", shape |-> "stereo", frames |-> FRAMES],
               [type |-> "process"], Calm)

NextPlayback == PlaybackMessage \/ PlaybackBlock

SpecPlayback == InitPlayback /\ [][NextPlayback]_vars

---------------------------------------------------------------------------
(* Claims about the codec, checked under SpecCodec.                        *)

\* C1: for every Operator whose flags are booleans and whose numeric fields
\* lie within their bit widths, decodeOperator(encodeOperator(op)) equals op
\* field for field.
C1_OperatorRoundTrip ==
    (cpc = "opDecoded" /\ InRangeOperator(op)) => opOut = op

C1_Witness ==
    /\ cpc = "opDecoded"
    /\ op = AllFlagsOperator
    /\ opBytes = << 255, 255, 255, 255, 7 >>
    /\ opOut = AllFlagsOperator

\* C2: for every Instrument within the documented widths, with exactly 4
\* in-range operators, writing it into the 40-byte record and reading the
\* same 40 bytes back returns an instrument equal to the original in every
\* field, for every combination of the flags, the rhythm mode and the
\* feedback/connection values.
C2_InstrumentRoundTrip ==
    (cpc = "instRead" /\ InRangeInstrument(inst)) => instOut = inst

C2_Witness ==
    /\ cpc = "instRead"
    /\ inst = RoundtripInstrument
    /\ instOut.noteOffset1 = -12 /\ instOut.velocityOffset = -5
    /\ instOut.rhythmMode = 2 /\ instOut.feedback1 = 5
    /\ instOut.operators[1] = CustomOperator
    /\ instOut = inst

\* Byte k of the little-endian two's complement representation of v.
LEByte(v, k) == (v \div Pow2(8 * k)) % 256

\* The addresses of the record that hold a field: offsets 0..37.
FieldAddrs == { a \in HeapAddrs : a >= ptr /\ a < ptr + DELAY_OFFSET + 4 }

\* The heap with every byte outside the fields of the record changed.
Scrambled(h) == [a \in DOMAIN h |-> IF a \in FieldAddrs THEN h[a] ELSE 255 - h[a]]

---------------------------------------------------------------------------
(* Claims about the processor, checked under Spec. *)

Replied(type) == Len(posted) = 1 /\ posted[1].type = type

\* C4: when the engine call or the sample conversion throws inside
\* process(), the exception does not leave process(): exactly one
\* processingError message is posted for the block, and ready, playMode and
\* bufferPtr are what they were.
C4_ProcessContainsExceptions ==
    [][ (last'.kind = "process" /\ last'.raised # "") =>
            /\ ~last'.threw
            /\ Len(posted') = 1
            /\ posted'[1] = [type |-> "processingError", error |-> last'.raised]
            /\ ready' = ready /\ playMode' = playMode /\ bufferPtr' = bufferPtr
            /\ live' = live ]_vars

C4_Witness ==
    /\ last.kind = "process" /\ last.raised = NativeError
    /\ playMode = "file" /\ calls = << "_adl_play" >>
    /\ Replied("processingError")

\* C5: process() returns true on every invocation: before initialisation
\* finished, after it failed, with no output to fill, in realtime mode, in
\* file mode, and when the engine call or the conversion throws.
C5_ProcessReturnsTrue ==
    last.kind = "process" => ~last.threw /\ last.returned = True

C5_Witness ==
    /\ last.kind = "process" /\ last.returned = True
    /\ ~ready /\ initDone /\ midi = EngineHandle /\ last.shape = "empty"

\* C6: while the processor is not ready, process() makes no engine call,
\* writes nothing to the output channels and posts no message.
C6_NotReadyNoOp ==
    (last.kind = "process" /\ ~last.wasReady) =>
        calls = << >> /\ last.written = 0 /\ posted = << >>

C6_Witness ==
    /\ last.kind = "process" /\ ~last.wasReady /\ last.shape = "stereo"
    /\ initDone /\ adl = "module" /\ midi = EngineHandle /\ bufferPtr = 0

\* The reply each replying message type is answered with.
ReplyType ==
    [ ping            |-> "pong",
      configure       |-> "configured",
      loadBank        |-> "bankLoaded",
      setBank         |-> "bankSet",
      getInstrument   |-> "instrumentLoaded",
      setInstrument   |-> "instrumentSet",
      switchEmulator  |-> "emulatorSwitched",
      getEmulatorName |-> "emulatorName",
      loadMidi        |-> "midiLoaded",
      getState        |-> "state" ]

\* C7: a message handled while ready produces exactly one reply, of its
\* fixed type, when its type is one of the ten replying types, and no reply
\* for every other type.
C7_OneReplyOfFixedType ==
    (last.kind = "message" /\ last.wasReady) =>
        IF last.msg.type \in DOMAIN ReplyType
        THEN Replied(ReplyType[last.msg.type])
        ELSE posted = << >>

RECURSIVE Count(_, _)
Count(s, v) ==
    IF s = << >> THEN 0 ELSE (IF Head(s) = v THEN 1 ELSE 0) + Count(Tail(s), v)

\* C8: when getInstrument or setInstrument returns or throws, every scratch
\* buffer the call allocated has been freed, exactly once.
C8_ScratchFreedOnEveryPath ==
    (last.kind = "message" /\ last.msg.type \in {"getInstrument", "setInstrument"}) =>
        /\ \A k \in 1..Len(last.allocated) : last.allocated[k] \notin live
        /\ Count(calls, "_free") = Len(last.allocated)
        /\ ~badFree

\* C9: no error raised while a message is handled escapes handleMessage;
\* each is answered with an outbound message.
C9_ErrorsBecomeMessages ==
    (last.kind = "message" /\ last.raised # "") =>
        ~last.threw /\ Len(posted) >= 1

\* Whether the getInstrument request last handled could be served.
GetInstrumentServed ==
    /\ "bankId" \in DOMAIN last.msg
    /\ last.env.fault = 0 /\ last.env.rcBank = 0 /\ last.env.rcInst = 0

\* C10: a getInstrument request that fails is answered with an
\* instrumentLoaded reply carrying success = false, an error string and no
\* instrument, and nothing is thrown; one that succeeds is answered with
\* success = true and the instrument decoded from the slot's record.
C10_GetInstrumentStructuredResult ==
    (last.kind = "message" /\ last.wasReady /\ last.msg.type = "getInstrument") =>
        /\ ~last.threw
        /\ Replied("instrumentLoaded")
        /\ IF GetInstrumentServed
           THEN /\ DOMAIN posted[1] = {"type", "success", "instrument"}
                /\ posted[1].success = TRUE
                /\ posted[1].instrument \in {defaultInstrument, RoundtripInstrument,
                                           MutatedInstrument}
                /\ RecordOf(posted[1].instrument) =
                       bank[SlotOf(last.msg.bankId, last.msg.programNumber)]
           ELSE /\ DOMAIN posted[1] = {"type", "success", "error"}
                /\ posted[1].success = FALSE
                /\ posted[1].error \in {NativeError, TypeError, "Failed to get bank",
                                        "Failed to get instrument"}

C10_Witness ==
    /\ last.kind = "message" /\ last.wasReady /\ last.msg.type = "getInstrument"
    /\ last.env.fault = 3 /\ calls = << "_malloc", "_malloc", "_adl_getBank" >>
    /\ posted = << [type |-> "instrumentLoaded", success |-> FALSE,
                    error |-> NativeError] >>

---------------------------------------------------------------------------
(* Claims about the play mode, the realtime events and the replies,         *)
(* checked under Spec.                                                      *)

\* The message last handled passed the ready guard of handleMessage.
Handled(types) ==
    last.kind = "message" /\ last.wasReady /\ last.msg.type \in types

\* C11: playMode is always 'realtime' or 'file'; it is 'realtime' after
\* construction, 'file' after a play message was handled, and 'realtime'
\* after a stop or a reset message was handled.
C11_PlayModeFollowsMessages ==
    /\ playMode \in {"realtime", "file"}
    /\ last.kind = "constructor" => playMode = "realtime"
    /\ Handled({"play"}) => playMode = "file"
    /\ Handled({"stop", "reset"}) => playMode = "realtime"

\* The native call each realtime event is forwarded to.
EventCall ==
    [ noteOn        |-> "_adl_rt_noteOn",
      noteOff       |-> "_adl_rt_noteOff",
      pitchBend     |-> "_adl_rt_pitchBendML",
      controlChange |-> "_adl_rt_controllerChange",
      programChange |-> "_adl_rt_patchChange" ]

\* C12: a realtime event handled while ready is forwarded to the engine at
\* once, by the same single call in file mode as in realtime mode, and
\* leaves playMode as it was.
C12_EventsForwardedInFileMode ==
    [][ (last'.kind = "message" /\ last'.wasReady
         /\ last'.msg.type \in DOMAIN EventCall) =>
            /\ calls' = << EventCall[last'.msg.type] >>
            /\ playMode' = playMode
            /\ posted' = << >> ]_vars

C12_Witness ==
    /\ Handled({"noteOn"}) /\ playMode = "file" /\ last.raised = ""
    /\ calls = << "_adl_rt_noteOn" >>

\* C13: a loadMidi request handled while ready gets exactly one midiLoaded
\* reply: success = true with the engine's duration when _adl_openData
\* returned 0 and nothing threw, otherwise success = false with an error
\* string and no duration.
C13_MidiLoadedReply ==
    Handled({"loadMidi"}) =>
        /\ Replied("midiLoaded")
        /\ ~last.threw
        /\ IF last.env.rc = 0 /\ last.raised = ""
           THEN posted[1] = [type |-> "midiLoaded", success |-> TRUE,
                             duration |-> last.env.duration]
           ELSE /\ DOMAIN posted[1] = {"type", "success", "error"}
                /\ posted[1].success = FALSE
                /\ posted[1].error \in {NativeError, "Failed to parse MIDI data"}

C13_Witness ==
    /\ Handled({"loadMidi"})
    /\ calls = << "_malloc", "_adl_openData", "_free", "_adl_totalTimeLength" >>
    /\ posted = << [type |-> "midiLoaded", success |-> TRUE,
                    duration |-> SomeDuration] >>

\* The settings a configure message carries (none when it has no settings).
Given(msg) == IF "settings" \in DOMAIN msg THEN msg.settings ELSE << >>

\* The setter of each setting, in the order the settings are pushed.
SetterOrder ==
    << "numChips", "numFourOpChannels", "bank", "softPan", "deepVibrato",
       "deepTremolo" >>
SetterOf ==
    [ numChips          |-> "_adl_setNumChips",
      numFourOpChannels |-> "_adl_setNumFourOpsChn",
      bank              |-> "_adl_setBank",
      softPan           |-> "_adl_setSoftPanEnabled",
      deepVibrato       |-> "_adl_setHVibrato",
      deepTremolo       |-> "_adl_setHTremolo" ]
RECURSIVE SettersFrom(_, _)
SettersFrom(given, k) ==
    IF k > Len(SetterOrder) THEN << >>
    ELSE (IF SetterOrder[k] \in DOMAIN given THEN << SetterOf[SetterOrder[k]] >>
          ELSE << >>) \o SettersFrom(given, k + 1)

\* C14: a configure message handled while ready merges the settings it
\* carries into the stored settings key by key, pushes exactly those
\* settings to the engine, and then posts exactly one 'configured' message.
C14_ConfigureAppliedAndAcknowledged ==
    [][ (last'.kind = "message" /\ last'.wasReady
         /\ last'.msg.type = "configure") =>
            /\ DOMAIN settings' = DOMAIN settings \cup DOMAIN Given(last'.msg)
            /\ \A k \in DOMAIN settings' :
                 settings'[k] = IF k \in DOMAIN Given(last'.msg)
                                THEN Given(last'.msg)[k] ELSE settings[k]
            /\ calls' = SettersFrom(Given(last'.msg), 1)
            /\ posted' = << [type |-> "configured"] >> ]_vars

\* The native call name returned (it was made and did not throw).
CallReturned(name) ==
    /\ \E k \in 1..Len(calls) : calls[k] = name
    /\ ~(last.raised = NativeError /\ calls[Len(calls)] = name)

\* The native call whose return code a reply's success field reports, and
\* the code it returned in the environment of the message last handled.
ReportedCall ==
    [ setBank        |-> "_adl_setBank",
      switchEmulator |-> "_adl_switchEmulator",
      setInstrument  |-> "_adl_setInstrument",
      loadBank       |-> "_adl_openBankData" ]
ReportedCode ==
    IF last.msg.type = "setInstrument" THEN last.env.rcSet ELSE last.env.rc

\* C15: the success field of a bankSet, emulatorSwitched, instrumentSet or
\* bankLoaded reply is true exactly when the corresponding native call
\* returned 0.
C15_ZeroMeansSuccess ==
    (Handled(DOMAIN ReportedCall) /\ Len(posted) = 1) =>
        posted[1].success =
            (CallReturned(ReportedCall[last.msg.type]) /\ ReportedCode = 0)

---------------------------------------------------------------------------
(* Claims about the masks of the operator codec, checked under SpecCodec. *)

\* An operator whose numeric fields are arbitrary non-negative integers.
NonNegativeOperator(o) ==
    \A f \in {"freqMult", "keyScaleLevel", "totalLevel", "attack", "decay",
              "sustain", "release", "waveform"} : o[f] \in Nat

\* The operator with every numeric field reduced to its bit width.
Reduced(o) ==
    [ am |-> o.am, vibrato |-> o.vibrato, sustaining |-> o.sustaining,
      ksr |-> o.ksr,
      freqMult |-> o.freqMult % 16, keyScaleLevel |-> o.keyScaleLevel % 4,
      totalLevel |-> o.totalLevel % 64,
      attack |-> o.attack % 16, decay |-> o.decay % 16,
      sustain |-> o.sustain % 16, release |-> o.release % 16,
      waveform |-> o.waveform % 8 ]

\* C20: for an operator with arbitrary non-negative numeric fields each of
\* the 5 encoded bytes is in 0..255 and decoding them gives the operator
\* with every field reduced modulo its width; and decoding any 5 bytes
\* gives fields within the widths.
C20_OperatorMasks ==
    /\ (cpc \in {"opEncoded", "opDecoded"} /\ NonNegativeOperator(op)) =>
            /\ Len(opBytes) = SIZEOF_ADL_OPERATOR
            /\ \A k \in 1..Len(opBytes) : opBytes[k] \in 0..255
    /\ (cpc = "opDecoded" /\ NonNegativeOperator(op)) => opOut = Reduced(op)
    /\ cpc = "bytesDecoded" => InRangeOperator(opOut)

C20_Witness ==
    /\ cpc = "opDecoded"
    /\ op.keyScaleLevel = 1000 /\ op.totalLevel = 65551
    /\ opBytes[2] = 15
    /\ opOut.keyScaleLevel = 0 /\ opOut.totalLevel = 15

---------------------------------------------------------------------------
(* Claims about the control-side facade (SpecFacade) *)

\* Every request sent has been answered and the answer has arrived.
Quiescent == fCur = << >> /\ fSent # {} /\ fSent \subseteq fDelivered

\* C16: each request's listener is registered before its message is sent,
\* and once every request sent has been answered no reply listener remains
\* registered and no request promise is still pending.
C16_NoLeakNoDeadlock ==
    /\ fSent \subseteq fRegistered
    /\ Quiescent => /\ \A t \in ReplyTypes : fListeners[t] = 0
                    /\ fPending = {}

\* C17: a promise is settled only by the reply produced for its own request,
\* never by the reply to a request it superseded.
C17_LastRequestWins == \A s \in fSettled : s.by = s.req

---------------------------------------------------------------------------
(* Claims about the low-level bridge (SpecCore) *)

\* C18: close() frees the generation buffer and destroys the engine handle
\* exactly once: it never throws, it releases each resource the bridge held
\* with one native call, it leaves the bridge holding nothing, a close() on
\* a bridge holding nothing makes no native call, and no resource is ever
\* released twice.
C18_CloseIdempotent ==
    /\ \A r \in DOMAIN cReleased : cReleased[r] <= 1
    /\ cLast.method = "close" =>
          /\ cLast.threw = ""
          /\ cHandle = 0 /\ cBuffer = 0
          /\ Len(cCalls) = Cardinality(cLast.held)
          /\ \A r \in cLast.held : cReleased[r] = 1 /\ r \notin cLive

\* A second close(): the bridge held nothing, and both a buffer and a handle
\* had been released before.
C18_Witness ==
    /\ cLast.method = "close" /\ cLast.held = {}
    /\ Cardinality({r \in DOMAIN cReleased : cReleased[r] = 1}) >= 2

\* C19: a control method called while the bridge holds no handle (before
\* init, or after close) throws 'not initialized' and makes no native call;
\* no native call is ever made with a null or destroyed handle.
C19_NotInitializedGuard ==
    cLast.method \in DOMAIN NativeOf =>
        /\ cLast.before = 0 => cLast.threw = NotInitialized /\ cCalls = << >>
        /\ \A k \in 1..Len(cCalls) :
              cCalls[k].name \in {NativeOf[m] : m \in DOMAIN NativeOf} =>
                  cCalls[k].handle # 0 /\ cCalls[k].handle \in cLast.liveBefore

\* A control method called after close() threw 'not initialized'.
C19_Witness ==
    /\ cLast.method \in DOMAIN NativeOf
    /\ cLast.before = 0 /\ cLast.threw = NotInitialized
    /\ \E r \in DOMAIN cReleased : cReleased[r] = 1

---------------------------------------------------------------------------
(* Claims about the byte layout and the record size, checked under         *)
(* SpecCodec.                                                              *)

\* C21: for an operator within its bit widths byte 0 holds am, vibrato,
\* sustaining and ksr in bits 7..4 and freqMult in bits 3..0, byte 1 holds
\* keyScaleLevel in bits 7..6 and totalLevel in bits 5..0, byte 2 is
\* attack * 16 + decay, byte 3 is sustain * 16 + release and byte 4 is
\* waveform; the operator of the byte-values test encodes to
\* C1 14 F8 26 01.
C21_OperatorByteLayout ==
    (cpc \in {"opEncoded", "opDecoded"} /\ InRangeOperator(op)) =>
        /\ opBytes = << (IF op.am THEN 128 ELSE 0) + (IF op.vibrato THEN 64 ELSE 0)
                          + (IF op.sustaining THEN 32 ELSE 0)
                          + (IF op.ksr THEN 16 ELSE 0) + op.freqMult,
                        64 * op.keyScaleLevel + op.totalLevel,
                        16 * op.attack + op.decay,
                        16 * op.sustain + op.release,
                        op.waveform >>
        /\ op = ByteValuesOperator => opBytes = << 193, 20, 248, 38, 1 >>

C21_Witness ==
    /\ cpc = "opEncoded"
    /\ op = ByteValuesOperator
    /\ opBytes = << 193, 20, 248, 38, 1 >>

---------------------------------------------------------------------------
(* Claims about instrument editing and the emulator, checked under Spec.   *)

\* Handling message l.msg ended with the reply p of the given type
\* reporting success.
Succeeded(l, p, type, reply) ==
    /\ l.kind = "message" /\ l.wasReady /\ l.msg.type = type
    /\ Len(p) = 1 /\ p[1].type = reply /\ p[1].success

SlotOfMsg(msg) == SlotOf(msg.bankId, msg.programNumber)

C24_FailedSwitchKeepsEmulator ==
    [][ /\ (/\ last'.kind = "message" /\ last'.wasReady
            /\ last'.msg.type = "switchEmulator"
            /\ last'.msg.emulator \notin CompiledEmulators
            /\ last'.raised = "") =>
               /\ last'.env.rc # 0
               /\ posted' = << [type |-> "emulatorSwitched", success |-> FALSE,
                                emulator |-> last'.msg.emulator] >>
               /\ emulator' = emulator
        /\ (/\ last'.kind = "message" /\ last'.wasReady
            /\ last'.msg.type = "getEmulatorName"
            /\ last'.raised = "" /\ last'.env.rc # 0) =>
               /\ posted' = << [type |-> "emulatorName",
                                name |-> EmulatorName(emulator)] >>
               /\ emulator' = emulator
      ]_vars

\* The engine had been switched to the DOSBox emulator and a request for
\* the Opal emulator failed.
C24_Witness ==
    /\ Handled({"switchEmulator"})
    /\ last.msg.emulator = OPAL_EMULATOR
    /\ calls = << "_adl_switchEmulator" >>
    /\ posted = << [type |-> "emulatorSwitched", success |-> FALSE,
                    emulator |-> OPAL_EMULATOR] >>
    /\ emulator = DOSBOX_EMULATOR

---------------------------------------------------------------------------
(* Claims about the samples process() delivers, checked under SpecAudio.   *)

\* C25: after a block with a two-channel output, left[i] is interleaved
\* sample 2i over 32768 and right[i] is sample 2i+1 over 32768, for every
\* frame i, and every output value lies within [-1, 1].
C25_SamplesScaledToUnitRange ==
    (apc = "converted" /\ aShape = "stereo") =>
        \A i \in 0..(aFrames - 1) :
            /\ aOut[1][i + 1] = [num |-> aSamples[2 * i + 1], den |-> Pow2(15)]
            /\ aOut[2][i + 1] = [num |-> aSamples[2 * i + 2], den |-> Pow2(15)]
            /\ \A c \in 1..2 :
                 /\ -aOut[c][i + 1].den <= aOut[c][i + 1].num
                 /\ aOut[c][i + 1].num <= aOut[c][i + 1].den

C25_Witness ==
    /\ apc = "converted" /\ aShape = "stereo" /\ aFrames = MaxFrames
    /\ aSamples[1] = -Pow2(15) /\ aSamples[2] = Pow2(15) - 1
    /\ aOut[1][1].num = -Pow2(15) /\ aOut[2][1].num = Pow2(15) - 1
    /\ aOut[1][2].num = -1

\* C35: with a one-channel output the engine still produced frames * 2
\* samples, every frame of the single channel is written, and frame i ends
\* as interleaved sample 2i+1 over 32768: the right sample overwrites the
\* left one written just before.
C35_MonoHoldsRightSample ==
    (apc = "converted" /\ aShape = "mono") =>
        /\ Len(aOut) = 1 /\ Len(aOut[1]) = aFrames
        /\ Len(aSamples) = aFrames * 2
        /\ \A i \in 0..(aFrames - 1) :
             aOut[1][i + 1] = [num |-> aSamples[2 * i + 2], den |-> Pow2(15)]

C35_Witness ==
    /\ apc = "converted" /\ aShape = "mono" /\ aFrames = MaxFrames
    /\ aSamples[1] = 1 /\ aSamples[2] = -1 /\ aOut[1][1].num = -1
    /\ aSamples[3] = -Pow2(15) /\ aSamples[4] = 0 /\ aOut[1][2].num = 0

---------------------------------------------------------------------------
(* Claims about initialization and the ready guard, checked under Spec.    *)

\* The native calls of a complete initialization, in order.
InitCalls == << "_adl_init" >> \o SettersFrom(settings, 1) \o << "_malloc" >>

Outcomes(msgs) == { k \in 1..Len(msgs) : msgs[k].type \in {"ready", "error"} }

\* C27: the processor eventually posts its initialization outcome; the only
\* step that posts 'ready' or 'error' is the one continuation of initWasm,
\* which posts exactly one of them ('ready' exactly when it set ready);
\* ready never turns false again, and after an 'error' it never turns true.
C27_OneInitOutcome ==
    /\ [][ /\ Outcomes(posted') # {} => (~initDone /\ initDone')
           /\ (~initDone /\ initDone') =>
                /\ Len(posted') = 1 /\ Outcomes(posted') = {1}
                /\ (posted'[1].type = "ready") = ready'
           /\ ready => ready'
           /\ (initDone /\ ~ready) => ~ready'
           /\ initDone => initDone' ]_vars
    /\ <>initDone

C27_Witness ==
    /\ initDone /\ ~ready /\ last.kind = "initWasm"
    /\ posted = << [type |-> "error",
                    message |-> "Failed to initialize ADL MIDI player"] >>

\* C28: a message other than ping handled while the processor is not ready
\* makes no native call, posts nothing, throws nothing and leaves the
\* settings, playMode and every other field as they were; the step in which
\* the processor becomes ready handles none of the discarded messages (its
\* calls and its one post are those of the initialization); a ping posts
\* exactly one pong carrying the value ready has at that moment.
C28_DiscardedWhileNotReady ==
    [][ /\ (last'.kind = "message" /\ ~ready /\ last'.msg.type # "ping") =>
            /\ calls' = << >> /\ posted' = << >> /\ ~last'.threw
            /\ settings' = settings /\ playMode' = playMode
            /\ <<adl, midi, bufferPtr, ready, live, bank, emulator>>' =
               <<adl, midi, bufferPtr, ready, live, bank, emulator>>
        /\ (~ready /\ ready') =>
            calls' = InitCalls /\ posted' = << [type |-> "ready"] >>
        /\ (last'.kind = "message" /\ last'.msg.type = "ping") =>
            /\ posted' = << [type |-> "pong", ready |-> ready] >>
            /\ calls' = << >> /\ ready' = ready ]_vars

C28_Witness ==
    /\ last.kind = "message" /\ ~last.wasReady /\ ~ready
    /\ last.msg.type = "configure" /\ "settings" \in DOMAIN last.msg
    /\ settings = DefaultSettings /\ posted = << >> /\ calls = << >>

---------------------------------------------------------------------------
(* Claims about the order of replies, checked under SpecFacade: the        *)
(* requests are those the facade posts, handled by handleMessage.          *)

\* C29: replies are posted in the order their requests were handled, and
\* the k-th reply of a type answers the k-th request of that type handled
\* while ready.
C29_RepliesAnswerInOrder ==
    /\ \A i, j \in 1..Len(fReplies) :
         i < j => fReplies[i].for <= fReplies[j].for
    /\ \A t \in DOMAIN ExpectedReply :
         LET OfType(r) == r.body.type = t
             Answers(m) == m.reply.type = ExpectedReply[t]
         IN /\ Len(SelectSeq(fReplies, Answers)) <= Len(SelectSeq(fServed, OfType))
            /\ \A k \in 1..Len(SelectSeq(fReplies, Answers)) :
                 SelectSeq(fReplies, Answers)[k].for =
                     SelectSeq(fServed, OfType)[k].id

---------------------------------------------------------------------------
(* Claims about the engine call of process(), checked under Spec.          *)

\* C30: a process() call made while ready with a non-empty output makes
\* exactly one engine audio call, for frames * 2 samples into the generation
\* buffer allocated by initWasm: _adl_play when playMode is 'file' and
\* _adl_generate otherwise; the call that advances the file position is
\* never made in realtime mode, nor by a block that is skipped.
C30_OneAudioCallPerBlock ==
    [][ last'.kind = "process" =>
          IF ready /\ last'.shape \in {"mono", "stereo"}
          THEN /\ calls' = << IF playMode = "file" THEN "_adl_play"
                                                   ELSE "_adl_generate" >>
               /\ last'.audio = << [name |-> calls'[1], sampleCount |-> last'.frames * 2,
                                    buffer |-> bufferPtr] >>
               /\ bufferPtr # 0 /\ bufferPtr \in live
               /\ playMode' = playMode
          ELSE calls' = << >> /\ last'.audio = << >> ]_vars

C30_Witness ==
    /\ last.kind = "process" /\ last.wasReady /\ last.shape = "stereo"
    /\ last.frames = 128 /\ playMode = "file" /\ last.raised = ""
    /\ last.audio = << [name |-> "_adl_play", sampleCount |-> 256,
                        buffer |-> bufferPtr] >>

---------------------------------------------------------------------------
(* Claims about the play mode and the playback state, checked under Spec.  *)

\* C31: playMode changes only while a play, stop or reset message is
\* handled; every other message and every process() block leave it as it
\* was; a play message handled while ready sets it to 'file' whatever the
\* engine has loaded, and the engine reporting the end of the file does not
\* set it back.
C31_OnlyPlayStopResetChangeMode ==
    [][ /\ playMode' # playMode =>
            /\ last'.kind = "message" /\ ready
            /\ last'.msg.type \in {"play", "stop", "reset"}
        /\ (last'.kind = "message" /\ ready /\ last'.msg.type = "play") =>
            playMode' = "file" /\ calls' = << >> ]_vars

C31_Witness ==
    /\ Handled({"getState"}) /\ Replied("state")
    /\ posted[1].atEnd /\ posted[1].playMode = "file" /\ playMode = "file"

---------------------------------------------------------------------------
(* Claims about stopping, checked under SpecPlayback.                      *)

\* C32: a stop message leaves playMode 'realtime', makes the rewind call
\* and then the panic call, with the file position at the start, and posts
\* nothing; a getState handled while a stop is still in force (no play or
\* seek since) is answered with playMode 'realtime' and position 0, and one
\* handled while a play is still in force (no stop or reset since) is
\* answered with playMode 'file'.
C32_StopRewindsAndSilences ==
    /\ Handled({"stop"}) =>
         /\ playMode = "realtime"
         /\ calls = << "_adl_positionRewind", "_adl_panic" >>
         /\ position = 0
         /\ posted = << >>
    /\ (Handled({"getState"}) /\ since = "stop") =>
         /\ Replied("state")
         /\ posted[1].playMode = "realtime" /\ posted[1].position = 0
    /\ (Handled({"getState"}) /\ since = "play") =>
         /\ Replied("state")
         /\ posted[1].playMode = "file"

---------------------------------------------------------------------------
(* Claims about the generation buffer, checked under Spec.                 *)

\* The message types that are handled without a reply.
FireAndForget == DOMAIN ForwardedCall \cup {"play", "stop", "reset"}

\* C33: bufferPtr is assigned only by initWasm, from its single _malloc of
\* 128 * 2 * 2 = 512 bytes; the block stays allocated; every process() call
\* passes that pointer to the engine; and neither process() nor a
\* fire-and-forget message allocates or frees native memory.
C33_BufferAllocatedOnce ==
    [][ /\ bufferPtr' # bufferPtr =>
            /\ ~initDone /\ initDone' /\ bufferPtr = 0
            /\ Count(calls', "_malloc") = 1 /\ Count(calls', "_free") = 0
            /\ last'.bufferSize = 512
            /\ bufferPtr' \in live'
        /\ (ready /\ last'.kind # "initWasm") =>
            /\ bufferPtr' = bufferPtr /\ bufferPtr' \in live'
        /\ ready' => Cardinality({bufferPtr'} \cap live') = 1
        /\ (last'.kind = "process"
              \/ (last'.kind = "message" /\ last'.msg.type \in FireAndForget)) =>
            /\ Count(calls', "_malloc") = 0 /\ Count(calls', "_free") = 0
            /\ live' = live
            /\ \A k \in 1..Len(last'.audio) : last'.audio[k].buffer = bufferPtr ]_vars

C33_Witness ==
    /\ last.kind = "process" /\ last.wasReady /\ playMode = "realtime"
    /\ last.frames = 128
    /\ last.audio = << [name |-> "_adl_generate", sampleCount |-> 256,
                        buffer |-> bufferPtr] >>
    /\ live = {bufferPtr} /\ bufferPtr # 0

---------------------------------------------------------------------------
(* Claims about the operator slots and the operator bytes, checked under   *)
(* SpecCodec.                                                              *)

\* C36: writeInstrumentToMemory fills all four 5-byte operator slots from
\* offset 14: slot k holds the encoding of inst.operators[k], and the bytes
\* 0x21 0x3F 0xF0 0x0F 0x00 of the default operator when inst.operators has
\* no such entry; readInstrumentFromMemory returns exactly 4 operators, the
\* given ones followed by default operators.
C36_FourOperatorSlots ==
    /\ cpc \in {"instWritten", "instRead"} =>
         \A k \in 0..3 :
            HeapSlice(heap, ptr + 14 + 5 * k, 5) =
                IF k < Len(inst.operators)
                THEN encodeOperator(inst.operators[k + 1])
                ELSE << 33, 63, 240, 15, 0 >>
    /\ cpc = "instRead" =>
         /\ Len(instOut.operators) = 4
         /\ \A k \in 1..4 :
              instOut.operators[k] =
                  IF k <= Len(inst.operators) THEN inst.operators[k]
                  ELSE defaultOperator

C36_Witness ==
    /\ cpc = "instRead" /\ fill = 255
    /\ inst.operators = << CustomOperator, RoundtripOperator >>
    /\ instOut.operators = << CustomOperator, RoundtripOperator,
                              defaultOperator, defaultOperator >>


\* C37: for any 5 bytes b, encodeOperator(decodeOperator(b)) equals b in
\* bytes 0..3 and equals b[4] & 0x07 in byte 4: the four register bytes
\* survive a decode/encode pass and only the upper five bits of the waveform
\* byte are lost.
C37_DecodeEncodeKeepsRegisters ==
    cpc = "bytesReencoded" =>
        /\ Len(opBack) = SIZEOF_ADL_OPERATOR
        /\ \A j \in 1..4 : opBack[j] = opBytes[j]
        /\ opBack[5] = BitAnd(opBytes[5], 7)

\* A pass over bytes whose attack/decay byte has distinct nibbles and whose
\* waveform byte has upper bits set.
C37_Witness ==
    /\ cpc = "bytesReencoded"
    /\ opBytes[3] = 165
    /\ opBytes[5] = 255
    /\ opBack[3] = 165
    /\ opBack[5] = 7

\* The place of the first call named v in the calls of a handler, 0 for none.
FirstCall(s, v) ==
    IF \E k \in 1..Len(s) : s[k] = v
    THEN CHOOSE k \in 1..Len(s) : s[k] = v /\ \A j \in 1..(k - 1) : s[j] # v
    ELSE 0

\* _adl_setInstrument was called, did not throw and returned 0.
SetReturnedZero ==
    /\ FirstCall(calls, "_adl_setInstrument") > 0
    /\ ~(last.raised = NativeError
         /\ FirstCall(calls, "_adl_setInstrument") = Len(calls))
    /\ last.env.rcSet = 0

\* C38: setInstrument calls _adl_reset exactly once when, and only when,
\* _adl_setInstrument returned 0; the reset is the call right after the set,
\* no scratch buffer is freed before it and the one 'instrumentSet' reply is
\* posted after it.  A set that fails (bank lookup failure, non-zero set
\* result, exception) makes no reset.
C38_ResetOnlyAfterSuccessfulSet ==
    (last.kind = "message" /\ last.wasReady /\ last.msg.type = "setInstrument") =>
        /\ Count(calls, "_adl_reset") = (IF SetReturnedZero THEN 1 ELSE 0)
        /\ Len(posted) = 1
        /\ posted[1].type = "instrumentSet"
        /\ SetReturnedZero =>
            /\ FirstCall(calls, "_adl_reset") = FirstCall(calls, "_adl_setInstrument") + 1
            /\ \A k \in 1..Len(calls) :
                   calls[k] = "_free" => k > FirstCall(calls, "_adl_reset")
            /\ last.postedAfter[1] >= FirstCall(calls, "_adl_reset")

\* A set that succeeded: one reset, then the three frees, then the reply.
C38_Witness ==
    /\ last.kind = "message" /\ last.wasReady /\ last.msg.type = "setInstrument"
    /\ SetReturnedZero
    /\ calls = << "_malloc", "_malloc", "_adl_getBank", "_malloc",
                  "_adl_setInstrument", "_adl_reset", "_free", "_free", "_free" >>
    /\ last.postedAfter = << 9 >>
    /\ posted[1].success
=============================================================================
